---- MODULE Spec2Model ----
(***************************************************************************)
(* PA-SSH-prep: the PAN-OS upgrade path planner (src/src/panos_upgrade.py) *)
(* and the job pollers of the content and software stages                  *)
(* (src/src/content_update.py, src/src/panos_upgrade.py).                  *)
(*                                                                         *)
(* A version string "M.m.p" or "M.m.p-hN" is the record                    *)
(* [valid, major, minor, patch, hotfix] (hotfix = 0: no suffix); the one   *)
(* string that Version.parse rejects is EmptyString ('' as returned by     *)
(* get_panos_version when the device reports no sw-version).  A            *)
(* "major.minor" key is the pair <<major, minor>>.                         *)
(***************************************************************************)
EXTENDS Integers, Sequences, FiniteSets, TLC

\* ------------------------------------------------------------- bounds
MinMajor == 8
MaxMajor == 12
MaxMinor == 2
MaxPatch == 4
MaxHotfix == 1
\* the longest path the planner may build before the model stops following it
MaxPathLen == 9
\* caller-given timeouts are the multiples of TimeoutStep up to MaxTimeoutSteps
TimeoutStep == 20
MaxTimeoutSteps == 3
\* a send_command takes no time, or CmdTime seconds
CmdTime == 5

\* ---------------------------------------------------------- constants
ContentPollInterval == 10
SoftwarePollInterval == 30

VARIABLES
    \* get_upgrade_path
    upgrade_paths,      \* the module-level dict UPGRADE_PATHS
    current_version,    \* argument: version string
    target_version,     \* argument: version string
    working_version,    \* local: Version
    path,               \* local: list of version strings
    plan_pc,            \* "idle", "call", "loop", "returned", "ValueError"
    \* the job pollers (_wait_for_*)
    job,                \* which poller runs
    client,             \* self.client is set (not None)
    timeout,            \* argument: seconds
    now,                \* time.time()
    start_time,         \* local
    status,             \* what the last send_command of the poller gave
    n_sleeps,           \* calls of time.sleep so far
    n_polls,            \* calls of send_command so far
    progress,           \* the last message given to _update_progress
    poll_pc,            \* "idle", "call", "test", "sleep", "fetch", or how it ended
    \* the stage operations (the trigger command and what follows it)
    op,                 \* which operation runs
    output,             \* what the trigger send_command gave
    retval,             \* the value the operation returned
    stage_error,        \* the exception the operation raised ("" for none)
    stage_pc,           \* "idle", "call", "polling", "returned", "raised"
    \* download_software
    ds_version,         \* argument: version string
    ds_timeout,         \* argument: seconds
    issued,             \* the calls of _download_version so far
    ds_pc,              \* "idle", "call", "base", "target", "returned", "raised"
    sent,               \* the commands get_current_version,
                        \* check_available_versions and reboot sent so far
    \* wait_for_ssh
    ssh_timeout,        \* argument: seconds
    ssh_poll_interval,  \* argument: seconds
    ssh_start_time,     \* local start_time
    attempt,            \* local
    result,             \* what the last TCP probe gave
    session,            \* how far the last client of wait_for_ssh got
    ssh_pc,             \* "idle", "call", "test", "probe", "connect", "liveness",
                        \* "sleep", "True", "False"
    \* the SSH sessions
    connected,          \* how many sessions are connected and not disconnected
    \* PANOSUpgrader.upgrade_to_version and FirewallSetupOrchestrator.run
    routine,            \* which of the two runs
    run_pc,             \* where it is
    current_phase,      \* self.current_phase
    step,               \* position in the calls of a phase
    hop,                \* position of the loop over path (1 is the first)
    new_version,        \* what get_current_version gave after a reconnect
    live,               \* the client's connection is set
    cancelled,          \* gui.is_cancelled()
    cancelled_at,       \* how many calls had been made when the user
                        \* cancelled (-1 while the user has not)
    phase_ok,           \* what the phase method returned
    outcome,            \* what the routine returned: "none", "True", "False"
    failure,            \* the first call that raised or gave False ("" for none)
    calls,              \* the calls made on the device so far
    shown,              \* the errors given to gui.show_error so far
    error,              \* the exception the except clause caught
    warnings,           \* the calls of logger.warning of upgrade_to_version
    overall,            \* the values given to gui.update_progress so far
    \* fetch_and_verify_licenses, configure_firewall, update_firewall_content
    entry,              \* which of the three functions runs
    disconnects,        \* the calls of client.disconnect so far
    max_retries,        \* argument
    retry_delay,        \* argument: seconds
    lic_attempt,        \* local attempt
    last_error,         \* local
    tried,              \* what each attempt so far raised (NoError for none)
    slept,              \* the calls of time.sleep so far
    queries,            \* the "request license info" queries so far
    lic_error,          \* what the function raised
    lic_pc,             \* "idle", "call", "loop", "attempt", "exhausted",
                        \* "work", "finally", "True", "raised"
    \* run_setup and its worker thread
    running,            \* gui.running
    started,            \* how many runs run_setup has started
    success,            \* local of the worker
    results,            \* what orchestrator.run() gave in each run so far
    completed,          \* the calls of gui.complete so far
    infos,              \* the runs that called gui.show_info
    worker_errors,      \* the runs that called gui.show_error
    worker_pc,          \* "idle", "run", "returned", "except", "done"
    \* FirewallConfigurator
    cfg_routine,        \* the method that was called
    secondary_dns,      \* whether a secondary DNS server is given
    cfg_op,             \* the operation that is running
    cfg_k,              \* which command of the operation comes next
    cfg_failed,         \* an exception is on its way through the finally clause
    cfg_sent,           \* what was sent to the client so far, with the results
    cfg_pc              \* "idle", "call", "enter", "body", "finally", "commit",
                        \* "returned", "raised"

planVars == <<upgrade_paths, current_version, target_version, working_version,
              path, plan_pc>>

pollVars == <<job, client, timeout, now, start_time, status, n_sleeps, n_polls,
              progress, poll_pc>>

stageVars == <<op, output, retval, stage_error, stage_pc, ds_version, ds_timeout,
               issued, ds_pc, sent>>

sshVars == <<ssh_timeout, ssh_poll_interval, ssh_start_time, attempt, result,
             session, ssh_pc, connected>>

runVars == <<routine, run_pc, current_phase, step, hop, new_version, live,
             cancelled, cancelled_at, phase_ok, outcome, failure, calls, shown,
             error, warnings, overall>>

licVars == <<entry, disconnects, max_retries, retry_delay, lic_attempt,
             last_error, tried, slept, queries, lic_error, lic_pc>>

workerVars == <<running, started, success, results, completed, infos,
                worker_errors, worker_pc>>

cfgVars == <<cfg_routine, secondary_dns, cfg_op, cfg_k, cfg_failed, cfg_sent, cfg_pc>>

vars ==
    <<planVars, pollVars, stageVars, sshVars, runVars, licVars, workerVars, cfgVars>>

otherThanPlan == <<pollVars, stageVars, sshVars, runVars, licVars, workerVars,
      cfgVars>>

otherThanPoll == <<planVars, stageVars, sshVars, runVars, licVars, workerVars,
      cfgVars>>

otherThanStage == <<planVars, sshVars, runVars, licVars, workerVars,
      cfgVars>>

otherThanSsh == <<planVars, stageVars, runVars, licVars, workerVars,
      cfgVars>>

runButOverall ==
    <<routine, run_pc, current_phase, step, hop, new_version, live, cancelled,
      cancelled_at, phase_ok, outcome, failure, calls, shown, error, warnings>>

\* ------------------------------------------------------------ strings
VerStr(M, m, p, h) ==
    [valid |-> TRUE, major |-> M, minor |-> m, patch |-> p, hotfix |-> h]

EmptyString ==
    [valid |-> FALSE, major |-> 0, minor |-> 0, patch |-> 0, hotfix |-> 0]

ParsableStrings ==
    { VerStr(M, m, p, h) : M \in MinMajor..MaxMajor, m \in 0..MaxMinor,
                           p \in 0..MaxPatch, h \in 0..MaxHotfix }

VersionStrings == ParsableStrings \cup {EmptyString}

\* ------------------------------------------------------ class Version
\* re.match(r'^(\d+)\.(\d+)\.(\d+)', ...) after the -h\d+ suffix is removed
Version_parse_ok(version_str) == version_str.valid

\* the dataclass: the numeric triple, and the text as given (suffix kept)
Version_parse(version_str) ==
    [major |-> version_str.major, minor |-> version_str.minor,
     patch |-> version_str.patch, original |-> version_str]

\* __str__: f"{major}.{minor}.{patch}", no suffix
Version_str_KeepsOriginal(v) == v.original

Version_str(v) == VerStr(v.major, v.minor, v.patch, 0)

\* f"{major}.{minor}"
major_minor(v) == <<v.major, v.minor>>

\* f"{major}.{minor}.0"
base_version(v) == VerStr(v.major, v.minor, 0, 0)

\* tuple comparison of (major, minor, patch)
TripleLt(a, b) ==
    \/ a.major < b.major
    \/ a.major = b.major /\ a.minor < b.minor
    \/ a.major = b.major /\ a.minor = b.minor /\ a.patch < b.patch

Version_eq(a, b) ==
    a.major = b.major /\ a.minor = b.minor /\ a.patch = b.patch

Version_lt_IgnoresPatch(a, b) ==
    \/ a.major < b.major
    \/ a.major = b.major /\ a.minor < b.minor

Version_lt(a, b) == TripleLt(a, b)

Version_le_MajorOnly(a, b) == a.major <= b.major

Version_le(a, b) == TripleLt(a, b) \/ Version_eq(a, b)

Version_ge(a, b) == TripleLt(b, a) \/ Version_eq(a, b)

\* ------------------------------------------------------ UPGRADE_PATHS
UPGRADE_PATHS_Cycle ==
    (<<9, 0>> :> VerStr(9, 1, 0, 0)) @@ (<<9, 1>> :> VerStr(10, 0, 0, 0)) @@
    (<<10, 0>> :> VerStr(10, 1, 0, 0)) @@ (<<10, 1>> :> VerStr(10, 0, 0, 0)) @@
    (<<10, 2>> :> VerStr(11, 0, 0, 0)) @@ (<<11, 0>> :> VerStr(11, 1, 0, 0)) @@
    (<<11, 1>> :> VerStr(11, 2, 0, 0)) @@ (<<11, 2>> :> VerStr(12, 1, 2, 0))

UPGRADE_PATHS_MissingKey ==
    (<<9, 0>> :> VerStr(9, 1, 0, 0)) @@ (<<9, 1>> :> VerStr(10, 0, 0, 0)) @@
    (<<10, 0>> :> VerStr(10, 1, 0, 0)) @@
    (<<10, 2>> :> VerStr(11, 0, 0, 0)) @@ (<<11, 0>> :> VerStr(11, 1, 0, 0)) @@
    (<<11, 1>> :> VerStr(11, 2, 0, 0)) @@ (<<11, 2>> :> VerStr(12, 1, 2, 0))

UPGRADE_PATHS ==
    (<<9, 0>> :> VerStr(9, 1, 0, 0)) @@ (<<9, 1>> :> VerStr(10, 0, 0, 0)) @@
    (<<10, 0>> :> VerStr(10, 1, 0, 0)) @@ (<<10, 1>> :> VerStr(10, 2, 0, 0)) @@
    (<<10, 2>> :> VerStr(11, 0, 0, 0)) @@ (<<11, 0>> :> VerStr(11, 1, 0, 0)) @@
    (<<11, 1>> :> VerStr(11, 2, 0, 0)) @@ (<<11, 2>> :> VerStr(12, 1, 2, 0))

\* --------------------------------------------------- get_upgrade_path
NoVersion == Version_parse(EmptyString)

\* lines 91-98: parse both arguments, return [] when current >= target
GetUpgradePath_Call ==
    /\ plan_pc = "call"
    /\ IF ~Version_parse_ok(current_version) \/ ~Version_parse_ok(target_version)
       THEN /\ plan_pc' = "ValueError"
            /\ UNCHANGED <<working_version, path>>
       ELSE IF Version_ge(Version_parse(current_version), Version_parse(target_version))
            THEN /\ plan_pc' = "returned"
                 /\ path' = <<>>
                 /\ UNCHANGED working_version
            ELSE /\ plan_pc' = "loop"
                 /\ path' = <<>>
                 /\ working_version' = Version_parse(current_version)
    /\ UNCHANGED <<upgrade_paths, current_version, target_version>>
    /\ UNCHANGED otherThanPlan

\* lines 100-124: the loop test and one pass through the loop body
GetUpgradePath_Loop ==
    /\ plan_pc = "loop"
    /\ Len(path) < MaxPathLen
    /\ LET target == Version_parse(target_version)
           current_major_minor == major_minor(working_version)
       IN  IF ~Version_lt(working_version, target)
           THEN /\ plan_pc' = "returned"
                /\ UNCHANGED <<working_version, path>>
           ELSE IF current_major_minor \in DOMAIN upgrade_paths
                THEN LET next_base == upgrade_paths[current_major_minor]
                         next_version == Version_parse(next_base)
                     IN  IF major_minor(next_version) = major_minor(target)
                         THEN /\ path' = Append(path, Version_str(target))
                              /\ plan_pc' = "returned"
                              /\ UNCHANGED working_version
                         ELSE IF Version_le(next_version, target)
                              THEN /\ path' = Append(path, next_base)
                                   /\ working_version' = next_version
                                   /\ plan_pc' = "loop"
                              ELSE /\ path' = Append(path, Version_str(target))
                                   /\ plan_pc' = "returned"
                                   /\ UNCHANGED working_version
                ELSE /\ path' = Append(path, Version_str(target))
                     /\ plan_pc' = "returned"
                     /\ UNCHANGED working_version
    /\ UNCHANGED <<upgrade_paths, current_version, target_version>>
    /\ UNCHANGED otherThanPlan

PlanNext == GetUpgradePath_Call \/ GetUpgradePath_Loop

\* -------------------------------------------------------- job pollers
(***************************************************************************)
(* A status text is the set of the markers it contains: the substrings and *)
(* patterns the pollers look for in it.  "N-N yes" is a match of           *)
(* (\d+-\d+)\s+yes, "N%" a match of (\d+)%, "<version>" the polled        *)
(* version, "<version> yes" a line holding the version and 'yes' or        *)
(* 'downloaded'.                                                           *)
(***************************************************************************)
ContentJobs == {"content_download", "content_install"}

SoftwareJobs == {"software_download", "software_install"}

Jobs == ContentJobs \cup SoftwareJobs

Markers(j) ==
    CASE j = "content_download" ->
            {"currently downloading", "download", "complete", "failed", "N-N yes",
             "N%"}
      [] j = "content_install" ->
            {"currently installing", "install", "complete", "failed", "version",
             "current"}
      [] j = "software_download" ->
            {"<version>", "<version> yes", "downloading", "failed", "N%"}
      [] j = "software_install" ->
            {"installed", "<version>", "running", "pending", "failed"}

\* a text holding a phrase holds the words inside the phrase
SubstringClosed(s) ==
    /\ "currently downloading" \in s => "download" \in s
    /\ "currently installing" \in s => {"install", "current"} \subseteq s
    /\ "<version> yes" \in s => "<version>" \in s

StatusTexts(j) == { s \in SUBSET Markers(j) : SubstringClosed(s) }

\* what send_command gives: a text, or an exception
Returns(s) == [raised |-> FALSE, text |-> s]

Raises == [raised |-> TRUE, text |-> {}]

CommandResults(j) == { Returns(s) : s \in StatusTexts(j) } \cup {Raises}

NoStatus == Returns({})

\* poll_interval of each poller
poll_interval(j) == IF j \in ContentJobs THEN ContentPollInterval ELSE SoftwarePollInterval

\* the while condition: (time.time() - start_time) < timeout
LoopCondition_OffByOne(t, start, limit) == (t - start) <= limit

LoopCondition(t, start, limit) == (t - start) < limit

\* what a pass through a loop body does: where control goes next, and the
\* message it gives to _update_progress ("" when it gives none)
Pass(next, message) == [next |-> next, progress |-> message]

\* content_update.py 93-111
wait_for_download_completion_body_AnyWord(r) ==
    IF r.raised THEN Pass("Exception", "")
    ELSE IF "currently downloading" \in r.text
         THEN Pass("test", IF "N%" \in r.text THEN "Downloading content: N%" ELSE "")
    ELSE IF "download" \in r.text \/ "complete" \in r.text
         THEN Pass("returned", "Content download completed")
    ELSE IF "failed" \in r.text THEN Pass("RuntimeError_failed", "")
    ELSE IF "N-N yes" \in r.text THEN Pass("returned", "")
    ELSE Pass("test", "")

wait_for_download_completion_body(r) ==
    IF r.raised THEN Pass("Exception", "")
    ELSE IF "currently downloading" \in r.text
         THEN Pass("test", IF "N%" \in r.text THEN "Downloading content: N%" ELSE "")
    ELSE IF "download" \in r.text /\ "complete" \in r.text
         THEN Pass("returned", "Content download completed")
    ELSE IF "failed" \in r.text THEN Pass("RuntimeError_failed", "")
    ELSE IF "N-N yes" \in r.text THEN Pass("returned", "")
    ELSE Pass("test", "")

\* content_update.py 175-190
wait_for_install_completion_body(r) ==
    IF r.raised THEN Pass("Exception", "")
    ELSE IF "currently installing" \in r.text
         THEN Pass("test", "Installing content...")
    ELSE IF "install" \in r.text /\ "complete" \in r.text
         THEN Pass("returned", "Content installation completed")
    ELSE IF "failed" \in r.text THEN Pass("RuntimeError_failed", "")
    ELSE IF "version" \in r.text /\ "current" \in r.text THEN Pass("returned", "")
    ELSE Pass("test", "")

\* panos_upgrade.py 239-257: "downloading" reports the percentage and goes
\* on to the test for "failed"
wait_for_software_download_body(r) ==
    IF r.raised THEN Pass("Exception", "")
    ELSE IF "<version>" \in r.text /\ "<version> yes" \in r.text
         THEN Pass("returned", "Version <version> download complete")
    ELSE LET message == IF "downloading" \in r.text /\ "N%" \in r.text
                        THEN "Downloading <version>: N%" ELSE ""
         IN  IF "failed" \in r.text THEN Pass("RuntimeError_failed", message)
             ELSE Pass("test", message)

\* panos_upgrade.py 297-315: the body is inside try / except Exception:
\* continue, which also catches the RuntimeError the body raises on "failed"
wait_for_software_install_body_Uncaught(r) ==
    IF r.raised THEN Pass("test", "")
    ELSE IF "installed" \in r.text /\ "<version>" \in r.text
         THEN Pass("returned", "Version <version> installation complete")
    ELSE IF "running" \in r.text \/ "pending" \in r.text
         THEN Pass("test", "Installing <version>...")
    ELSE IF "failed" \in r.text THEN Pass("RuntimeError_failed", "")
    ELSE Pass("test", "")

wait_for_software_install_body(r) ==
    LET in_try ==
            IF r.raised THEN Pass("Exception", "")
            ELSE IF "installed" \in r.text /\ "<version>" \in r.text
                 THEN Pass("returned", "Version <version> installation complete")
            ELSE IF "running" \in r.text \/ "pending" \in r.text
                 THEN Pass("test", "Installing <version>...")
            ELSE IF "failed" \in r.text THEN Pass("RuntimeError_failed", "")
            ELSE Pass("test", "")
    IN  IF in_try.next \in {"Exception", "RuntimeError_failed"}
        THEN Pass("test", in_try.progress) ELSE in_try

LoopBody(j, r) ==
    CASE j = "content_download" -> wait_for_download_completion_body(r)
      [] j = "content_install" -> wait_for_install_completion_body(r)
      [] j = "software_download" -> wait_for_software_download_body(r)
      [] j = "software_install" -> wait_for_software_install_body(r)

\* entry: the software pollers refuse to run without a client; start_time
Poller_Call ==
    /\ poll_pc = "call"
    /\ IF job \in SoftwareJobs /\ ~client
       THEN /\ poll_pc' = "RuntimeError_not_connected"
            /\ UNCHANGED start_time
       ELSE /\ start_time' = now
            /\ poll_pc' = "test"
    /\ UNCHANGED <<job, client, timeout, now, status, n_sleeps, n_polls, progress>>
    /\ UNCHANGED otherThanPoll

\* the while test, and the raise after the loop
Poller_Test ==
    /\ poll_pc = "test"
    /\ poll_pc' = IF LoopCondition(now, start_time, timeout)
                  THEN "sleep" ELSE "RuntimeError_timed_out"
    /\ UNCHANGED <<job, client, timeout, now, start_time, status, n_sleeps, n_polls,
                   progress>>
    /\ UNCHANGED otherThanPoll

\* time.sleep(poll_interval)
Poller_Sleep_ThenTestsTimeout ==
    /\ poll_pc = "sleep"
    /\ now' = now + poll_interval(job)
    /\ n_sleeps' = n_sleeps + 1
    /\ poll_pc' = IF LoopCondition(now', start_time, timeout)
                  THEN "fetch" ELSE "RuntimeError_timed_out"
    /\ UNCHANGED <<job, client, timeout, start_time, status, n_polls, progress>>
    /\ UNCHANGED otherThanPoll

Poller_Sleep ==
    /\ poll_pc = "sleep"
    /\ now' = now + poll_interval(job)
    /\ n_sleeps' = n_sleeps + 1
    /\ poll_pc' = "fetch"
    /\ UNCHANGED <<job, client, timeout, start_time, status, n_polls, progress>>
    /\ UNCHANGED otherThanPoll

\* status = self.client.send_command(...), then the rest of the loop body
Poller_Poll ==
    /\ poll_pc = "fetch"
    /\ \E r \in CommandResults(job), d \in {0, CmdTime} :
          /\ now' = now + d
          /\ status' = r
          /\ poll_pc' = LoopBody(job, r).next
          /\ progress' = IF LoopBody(job, r).progress = ""
                         THEN progress ELSE LoopBody(job, r).progress
    /\ n_polls' = n_polls + 1
    /\ UNCHANGED <<job, client, timeout, start_time, n_sleeps>>
    /\ UNCHANGED otherThanPoll

PollNext == Poller_Call \/ Poller_Test \/ Poller_Sleep \/ Poller_Poll

Timeouts == { k * TimeoutStep : k \in 0..MaxTimeoutSteps }

\* any map obtained from the shipped one by rewriting one entry to some X.Y.0
BaseStrings ==
    { VerStr(M, m, 0, 0) : M \in MinMajor..MaxMajor, m \in 0..MaxMinor }

EditedMaps ==
    { [UPGRADE_PATHS EXCEPT ![k] = b] : k \in DOMAIN UPGRADE_PATHS, b \in BaseStrings }

\* ------------------------------------------------- planner properties
\* order of two version strings by (major, minor, patch), suffix ignored
StrLt(s, t) ==
    \/ s.major < t.major
    \/ s.major = t.major /\ s.minor < t.minor
    \/ s.major = t.major /\ s.minor = t.minor /\ s.patch < t.patch

StrSame(s, t) == s.major = t.major /\ s.minor = t.minor /\ s.patch = t.patch

Rendered(s) == VerStr(s.major, s.minor, s.patch, 0)

Returned == plan_pc = "returned"

\* C1: the returned path is empty if and only if current >= target under
\* the (major, minor, patch) order, hotfix suffixes ignored; so it is empty
\* for equal versions and for current > target.
C1_EmptyIffCurrentGeTarget ==
    Returned => (path = <<>> <=> ~StrLt(current_version, target_version))

C1_Witness ==
    /\ Returned /\ path = <<>>
    /\ current_version = VerStr(11, 2, 4, 1)
    /\ target_version = VerStr(11, 2, 4, 0)

\* C2: for current < target the path (as built so far, and as returned) is
\* strictly increasing, and its first element strictly exceeds current.
C2_StrictlyIncreasing ==
    (plan_pc \in {"loop", "returned"} /\ path # <<>>) =>
        /\ StrLt(current_version, path[1])
        /\ \A i \in 1..(Len(path) - 1) : StrLt(path[i], path[i + 1])

C2_Witness ==
    /\ Returned /\ Len(path) >= 3
    /\ StrLt(current_version, target_version)

\* C3: the planner loop terminates: a pass that stays in the loop moves to
\* the train of another map entry, so a terminating planner is never in the
\* loop with more path elements than the map has entries.
C3_PlannerTerminates ==
    plan_pc = "loop" => Len(path) <= Cardinality(DOMAIN upgrade_paths)

\* C4: get_upgrade_path("11.2.4", "12.1.4") returns ["12.1.2", "12.1.4"].
C4_ForcedBaseTraversed ==
    (Returned /\ current_version = VerStr(11, 2, 4, 0)
              /\ target_version = VerStr(12, 1, 4, 0)) =>
        path = <<VerStr(12, 1, 2, 0), VerStr(12, 1, 4, 0)>>

\* C5: get_upgrade_path("9.1.0", "11.2.4") holds 10.0.0, 10.1.0, 10.2.0,
\* 11.0.0 and 11.1.0 in that order before its last element, which is 11.2.4.
C5_Bases ==
    <<VerStr(10, 0, 0, 0), VerStr(10, 1, 0, 0), VerStr(10, 2, 0, 0),
      VerStr(11, 0, 0, 0), VerStr(11, 1, 0, 0)>>

C5_LongPath ==
    (Returned /\ current_version = VerStr(9, 1, 0, 0)
              /\ target_version = VerStr(11, 2, 4, 0)) =>
        /\ Len(path) >= 5
        /\ path[Len(path)] = VerStr(11, 2, 4, 0)
        /\ \E f \in [1..5 -> 1..(Len(path) - 1)] :
              /\ \A k \in 1..4 : f[k] < f[k + 1]
              /\ \A k \in 1..5 : path[f[k]] = C5_Bases[k]

C5_Witness ==
    /\ Returned /\ current_version = VerStr(9, 1, 0, 0)
    /\ target_version = VerStr(11, 2, 4, 0)
    /\ Len(path) = 6

\* C6: a non-empty returned path has no element equal to the starting
\* version, ends with the target rendered as major.minor.patch, and every
\* earlier element is a value of the upgrade map strictly below the target.
C6_PathShape ==
    (Returned /\ path # <<>>) =>
        /\ \A i \in 1..Len(path) : ~StrSame(path[i], current_version)
        /\ path[Len(path)] = Rendered(target_version)
        /\ \A i \in 1..(Len(path) - 1) :
              /\ \E k \in DOMAIN upgrade_paths : upgrade_paths[k] = path[i]
              /\ StrLt(path[i], target_version)

C6_Witness ==
    /\ Returned /\ Len(path) >= 2
    /\ target_version.hotfix > 0

\* C7: when current < target and the current train has no map entry, or its
\* mapped base is greater than the target, the path is exactly [target].
C7_Direct ==
    (/\ Returned
     /\ StrLt(current_version, target_version)
     /\ LET k == <<current_version.major, current_version.minor>>
        IN  \/ k \notin DOMAIN upgrade_paths
            \/ StrLt(target_version, upgrade_paths[k])) =>
        path = <<Rendered(target_version)>>

C7_WitnessNoEntry ==
    /\ Returned /\ current_version = VerStr(8, 1, 0, 0)
    /\ target_version = VerStr(8, 1, 4, 0) /\ path = <<VerStr(8, 1, 4, 0)>>

C7_Witness ==
    /\ Returned /\ current_version = VerStr(10, 2, 0, 0)
    /\ target_version = VerStr(10, 2, 4, 0) /\ path = <<VerStr(10, 2, 4, 0)>>

\* --------------------------------------------------- poller properties
\* the markers of each poller, by kind
InProgressMarker(j, s) ==
    CASE j = "content_download" -> "currently downloading" \in s
      [] j = "content_install" -> "currently installing" \in s
      [] j = "software_download" -> "downloading" \in s
      [] j = "software_install" -> "running" \in s \/ "pending" \in s

CompletionMarker(j, s) ==
    CASE j = "content_download" ->
            ("download" \in s /\ "complete" \in s) \/ "N-N yes" \in s
      [] j = "content_install" ->
            ("install" \in s /\ "complete" \in s) \/ ("version" \in s /\ "current" \in s)
      [] j = "software_download" -> "<version> yes" \in s
      [] j = "software_install" -> "installed" \in s /\ "<version>" \in s

FailureMarker(s) == "failed" \in s

Unknown(j, s) ==
    ~InProgressMarker(j, s) /\ ~CompletionMarker(j, s) /\ ~FailureMarker(s)

\* the classification of a text that holds markers of several kinds, in the
\* order each poller looks for them
Classify(j, s) ==
    CASE j = "content_download" ->
            IF InProgressMarker(j, s) THEN "in_progress"
            ELSE IF "download" \in s /\ "complete" \in s THEN "complete"
            ELSE IF FailureMarker(s) THEN "failed"
            ELSE IF CompletionMarker(j, s) THEN "complete" ELSE "unknown"
      [] j = "content_install" ->
            IF InProgressMarker(j, s) THEN "in_progress"
            ELSE IF "install" \in s /\ "complete" \in s THEN "complete"
            ELSE IF FailureMarker(s) THEN "failed"
            ELSE IF CompletionMarker(j, s) THEN "complete" ELSE "unknown"
      [] j = "software_download" ->
            IF CompletionMarker(j, s) THEN "complete"
            ELSE IF FailureMarker(s) THEN "failed"
            ELSE IF InProgressMarker(j, s) THEN "in_progress" ELSE "unknown"
      [] j = "software_install" ->
            IF CompletionMarker(j, s) THEN "complete"
            ELSE IF InProgressMarker(j, s) THEN "in_progress"
            ELSE IF FailureMarker(s) THEN "failed" ELSE "unknown"

\* this step is a status poll that returned a text
Polled == n_polls' = n_polls + 1 /\ ~status'.raised

PollerEnded ==
    poll_pc \in {"returned", "RuntimeError_failed", "RuntimeError_timed_out",
                 "RuntimeError_not_connected", "Exception"}

\* C8: in each of the four pollers, a first status poll classified as failed
\* makes the poller raise the job-failure error at once (so no further
\* status poll is issued).
C8_FirstFailedRaises ==
    [][(Polled /\ n_polls = 0 /\ Classify(job, status'.text) = "failed")
          => poll_pc' = "RuntimeError_failed"]_vars

\* C9: the timeout error is raised at the loop test, exactly when the
\* elapsed time is no longer below the timeout; every status poll follows a
\* sleep of one poll interval made since the previous poll; a poll that is
\* not classified complete or failed goes back to the loop test; and the
\* poller ends.
C9_TimeoutAndCadence ==
    /\ [][/\ poll_pc = "test" =>
                (poll_pc' = "RuntimeError_timed_out" <=> (now - start_time) >= timeout)
          /\ poll_pc' = "RuntimeError_timed_out" => poll_pc = "test"
          /\ n_polls' # n_polls =>
                /\ n_polls' = n_polls + 1
                /\ n_sleeps = n_polls + 1
                /\ n_sleeps' = n_sleeps
          /\ n_sleeps' # n_sleeps =>
                /\ n_sleeps' = n_sleeps + 1
                /\ n_sleeps = n_polls
                /\ now' = now + poll_interval(job)
                /\ poll_pc' = "fetch"
          /\ (Polled /\ Classify(job, status'.text) \in {"in_progress", "unknown"})
                => poll_pc' = "test"]_vars
    /\ <>PollerEnded

C9_Witness ==
    /\ poll_pc = "RuntimeError_timed_out"
    /\ n_polls >= 2 /\ n_sleeps = n_polls
    /\ ~status.raised /\ Classify(job, status.text) = "in_progress"
    /\ job = "software_download"

\* C10: a status poll whose text matches no completion, failure or
\* in-progress marker sends the poller back to the loop test, and a poller
\* that returned did so on a text with a completion marker.
C10_UnknownKeepsPolling ==
    /\ [][(Polled /\ Unknown(job, status'.text)) => poll_pc' = "test"]_vars
    /\ [](poll_pc = "returned" => (~status.raised /\ CompletionMarker(job, status.text)))

C10_Witness ==
    /\ poll_pc = "RuntimeError_timed_out"
    /\ n_polls >= 2
    /\ ~status.raised /\ Unknown(job, status.text) /\ status.text # {}

\* C31: in the software-install poller a status poll classified as failed
\* goes back to the loop test like a poll that raised, so the poller never
\* ends with the job-failure error or with the exception of a poll: it
\* returns on a later poll that reports the completion, and otherwise ends
\* with the timed-out error.
C31_InstallFailureIsRetried ==
    /\ [][(job = "software_install" /\ n_polls' = n_polls + 1 /\
            (status'.raised \/ Classify(job, status'.text) = "failed"))
              => poll_pc' = "test"]_vars
    /\ [](job = "software_install" =>
            poll_pc \notin {"RuntimeError_failed", "Exception"})
    /\ [](job = "software_install" /\ poll_pc = "returned" =>
            ~status.raised /\ Classify(job, status.text) = "complete")
    /\ ((job = "software_install" /\ poll_pc = "test" /\ ~status.raised /\
         Classify(job, status.text) = "failed")
            ~> poll_pc \in {"returned", "RuntimeError_timed_out"})

\* the last of several polls reported failed and the poller timed out
C31_Witness ==
    /\ job = "software_install"
    /\ poll_pc = "RuntimeError_timed_out"
    /\ n_polls >= 2
    /\ ~status.raised
    /\ Classify(job, status.text) = "failed"

\* a poll reported failed and a later one the completion
C31_WitnessLaterComplete ==
    /\ job = "software_install"
    /\ poll_pc = "returned"
    /\ n_polls >= 2
    /\ progress = "Version <version> installation complete"

\* C38: in each poller a status poll is issued only in an iteration whose
\* loop test, one poll interval earlier, found the elapsed time below the
\* timeout; between that test and the end of the poll the timeout is not
\* looked at again, so the poll is issued also when the sleep has carried
\* the clock past the timeout, and a text it returns that is classified
\* complete makes the poller return, not raise the timed-out error.
C38_TimeoutTestedBeforeSleep ==
    /\ [][n_polls' # n_polls =>
            /\ poll_pc = "fetch"
            /\ ((now - poll_interval(job)) - start_time) < timeout]_vars
    /\ [](poll_pc = "sleep" => (now - start_time) < timeout)
    /\ [][(poll_pc = "sleep" \/ poll_pc = "fetch") =>
            poll_pc' # "RuntimeError_timed_out"]_vars
    /\ [][poll_pc = "sleep" => poll_pc' \in {"sleep", "fetch"}]_vars
    /\ [][(Polled /\ Classify(job, status'.text) = "complete")
            => poll_pc' = "returned"]_vars

\* the only poll was issued when the timeout had passed, and its text made
\* the poller return
C38_Witness ==
    /\ poll_pc = "returned"
    /\ n_polls = 1
    /\ timeout > 0
    /\ (now - CmdTime) - start_time >= timeout
    /\ ~status.raised /\ Classify(job, status.text) = "complete"

\* the same in a content poller, after several polls
C38_WitnessContent ==
    /\ job \in ContentJobs
    /\ poll_pc = "returned"
    /\ n_polls >= 2
    /\ (now - CmdTime) - start_time >= timeout

\* --------------------------------------------------- stage operations
(***************************************************************************)
(* A stage operation sends one trigger command and decides from its output *)
(* whether to return, to raise, or to poll the job it started.  The output *)
(* is the set of the markers it holds, as for the pollers.                 *)
(***************************************************************************)
ContentOps == {"download_latest_content", "install_latest_content"}

LicenseOps == {"fetch_licenses"}

UpgraderOps == {"_download_version", "install_software"}

StageOps == ContentOps \cup LicenseOps \cup UpgraderOps

TriggerMarkers(o) ==
    CASE o = "download_latest_content" ->
            {"download job enqueued", "already downloaded", "download succeeded",
             "successfully", "failed"}
      [] o = "install_latest_content" ->
            {"install job enqueued", "successfully", "installed", "failed",
             "already installed"}
      [] o = "fetch_licenses" ->
            {"successfully", "failed", "unable to connect", "invalid auth code"}
      [] o = "_download_version" ->
            {"already downloaded", "download job enqueued", "started",
             "successfully", "failed", "error"}
      [] o = "install_software" ->
            {"install job enqueued", "started", "successfully", "installed",
             "failed", "error"}

\* a text holding "already installed" holds "installed"
TriggerClosed(s) == "already installed" \in s => "installed" \in s

TriggerTexts(o) == { s \in SUBSET TriggerMarkers(o) : TriggerClosed(s) }

TriggerResults(o) == { Returns(s) : s \in TriggerTexts(o) } \cup {Raises}

\* the poller each operation hands over to
JobOf(o) ==
    CASE o = "download_latest_content" -> "content_download"
      [] o = "install_latest_content" -> "content_install"
      [] o = "_download_version" -> "software_download"
      [] o = "install_software" -> "software_install"
      [] OTHER -> "content_download"

\* a returned value: a text, or None
Value(s) == [none |-> FALSE, text |-> s]

None == [none |-> TRUE, text |-> {}]

\* what the code after the trigger command does: "poll", "returned" or the
\* exception it raises, and the message it gives to _update_progress
Act(next, message) == [next |-> next, progress |-> message]

\* content_update.py 55-82
download_latest_content_body(r) ==
    IF r.raised THEN Act("Exception", "")
    ELSE IF "download job enqueued" \in r.text
         THEN Act("poll", "Content download job started, waiting for completion...")
    ELSE IF "already downloaded" \in r.text
         THEN Act("returned", "Latest content already downloaded")
    ELSE IF "download succeeded" \in r.text \/ "successfully" \in r.text
         THEN Act("returned", "Content download completed")
    ELSE IF "failed" \in r.text THEN Act("RuntimeError_failed", "")
    ELSE Act("returned", "")

\* content_update.py 139-165: "already installed" is tested after "installed"
install_latest_content_body(r) ==
    IF r.raised THEN Act("Exception", "")
    ELSE IF "install job enqueued" \in r.text
         THEN Act("poll", "Content install job started, waiting for completion...")
    ELSE IF "successfully" \in r.text \/ "installed" \in r.text
         THEN Act("returned", "Content installed successfully")
    ELSE IF "failed" \in r.text THEN Act("RuntimeError_failed", "")
    ELSE IF "already installed" \in r.text
         THEN Act("returned", "Latest content already installed")
    ELSE Act("returned", "")

\* licensing.py 43-69
fetch_licenses_body_Strict(r) ==
    IF r.raised THEN Act("Exception", "")
    ELSE IF "successfully" \in r.text
         THEN Act("returned", "Licenses fetched successfully")
    ELSE Act("RuntimeError_failed", "")

fetch_licenses_body(r) ==
    IF r.raised THEN Act("Exception", "")
    ELSE IF "successfully" \in r.text
         THEN Act("returned", "Licenses fetched successfully")
    ELSE IF "failed" \in r.text THEN Act("RuntimeError_failed", "")
    ELSE IF "unable to connect" \in r.text THEN Act("RuntimeError_failed", "")
    ELSE IF "invalid auth code" \in r.text THEN Act("RuntimeError_failed", "")
    ELSE Act("returned", "License fetch completed")

\* panos_upgrade.py 212-226
download_version_body_PollsAlways(r) ==
    IF r.raised THEN Act("Exception", "")
    ELSE IF "already downloaded" \in r.text
         THEN Act("returned", "Version <version> already downloaded")
    ELSE IF "failed" \in r.text \/ "error" \in r.text
         THEN Act("RuntimeError_failed", "")
    ELSE Act("poll", "")

download_version_body(r) ==
    IF r.raised THEN Act("Exception", "")
    ELSE IF "already downloaded" \in r.text
         THEN Act("returned", "Version <version> already downloaded")
    ELSE IF "download job enqueued" \in r.text \/ "started" \in r.text
         THEN Act("poll", "")
    ELSE IF "successfully" \in r.text
         THEN Act("returned", "Version <version> downloaded")
    ELSE IF "failed" \in r.text \/ "error" \in r.text
         THEN Act("RuntimeError_failed", "")
    ELSE Act("returned", "")

\* panos_upgrade.py 274-284
install_software_body(r) ==
    IF r.raised THEN Act("Exception", "")
    ELSE IF "install job enqueued" \in r.text \/ "started" \in r.text
         THEN Act("poll", "")
    ELSE IF "successfully" \in r.text \/ "installed" \in r.text
         THEN Act("returned", "Version <version> installed")
    ELSE IF "failed" \in r.text \/ "error" \in r.text
         THEN Act("RuntimeError_failed", "")
    ELSE Act("returned", "")

StageBody(o, r) ==
    CASE o = "download_latest_content" -> download_latest_content_body(r)
      [] o = "install_latest_content" -> install_latest_content_body(r)
      [] o = "fetch_licenses" -> fetch_licenses_body(r)
      [] o = "_download_version" -> download_version_body(r)
      [] o = "install_software" -> install_software_body(r)

\* the first message of each operation
StartMessage(o) ==
    CASE o = "download_latest_content" -> "Downloading latest content update..."
      [] o = "install_latest_content" -> "Installing content update..."
      [] o = "fetch_licenses" -> "Fetching licenses from license server..."
      [] o = "_download_version" -> "Downloading version <version>..."
      [] o = "install_software" -> "Installing PAN-OS <version>..."

\* what the operation returns when it does not poll: the content and the
\* license operations return output, the upgrader's return nothing
ReturnOf(o, r) == IF o \in UpgraderOps THEN None ELSE Value(r.text)

\* the operation up to the end of its dispatch on the trigger output.  The
\* upgrader's operations refuse to run without a client.
Stage_Call ==
    /\ stage_pc = "call"
    /\ op \in StageOps
    /\ IF op \in UpgraderOps /\ ~client
       THEN /\ stage_pc' = "raised"
            /\ stage_error' = "RuntimeError_not_connected"
            /\ UNCHANGED <<output, retval, job, now, status, n_sleeps, n_polls,
                           progress, poll_pc>>
       ELSE \E r \in TriggerResults(op), d \in {0, CmdTime} :
               LET act == StageBody(op, r)
               IN  /\ output' = r
                   /\ now' = now + d
                   /\ progress' = IF act.progress = ""
                                  THEN StartMessage(op) ELSE act.progress
                   /\ IF act.next = "poll"
                      THEN /\ stage_pc' = "polling"
                           /\ job' = JobOf(op)
                           /\ status' = NoStatus
                           /\ n_sleeps' = 0
                           /\ n_polls' = 0
                           /\ poll_pc' = "call"
                           /\ UNCHANGED <<retval, stage_error>>
                      ELSE IF act.next = "returned"
                      THEN /\ stage_pc' = "returned"
                           /\ retval' = ReturnOf(op, r)
                           /\ UNCHANGED <<stage_error, job, status, n_sleeps,
                                          n_polls, poll_pc>>
                      ELSE /\ stage_pc' = "raised"
                           /\ stage_error' = act.next
                           /\ UNCHANGED <<retval, job, status, n_sleeps, n_polls,
                                          poll_pc>>
    /\ UNCHANGED <<op, ds_version, ds_timeout, issued, ds_pc, sent>>
    /\ UNCHANGED <<client, timeout, start_time>>
    /\ UNCHANGED otherThanStage

\* the poller came back: the content operations return its status, the
\* upgrader's return nothing, and what the poller raised goes to the caller
Stage_AfterPoller ==
    /\ stage_pc = "polling"
    /\ poll_pc \in {"returned", "RuntimeError_failed", "RuntimeError_timed_out",
                    "RuntimeError_not_connected", "Exception"}
    /\ IF poll_pc = "returned"
       THEN /\ stage_pc' = "returned"
            /\ retval' = IF op \in UpgraderOps THEN None ELSE Value(status.text)
            /\ UNCHANGED stage_error
       ELSE /\ stage_pc' = "raised"
            /\ stage_error' = poll_pc
            /\ UNCHANGED retval
    /\ UNCHANGED <<op, output, ds_version, ds_timeout, issued, ds_pc, sent>>
    /\ UNCHANGED <<pollVars, otherThanStage>>

\* --------------------------------------------------- download_software
\* panos_upgrade.py 200: the timeout given to the download of the base
BaseTimeout_Full(t) == t

BaseTimeout(t) == t \div 2

\* a call of _download_version(version, timeout)
DownloadCall(v, t) == [version |-> v, timeout |-> t]

\* panos_upgrade.py 190-203, up to its first call of _download_version
DownloadSoftware_Call ==
    /\ ds_pc = "call"
    /\ IF ~client
       THEN /\ ds_pc' = "raised"
            /\ stage_error' = "RuntimeError_not_connected"
            /\ UNCHANGED <<op, stage_pc, issued, timeout, progress>>
       ELSE /\ progress' = "Downloading PAN-OS <version>..."
            /\ IF ~Version_parse_ok(ds_version)
               THEN /\ ds_pc' = "raised"
                    /\ stage_error' = "ValueError"
                    /\ UNCHANGED <<op, stage_pc, issued, timeout>>
               ELSE LET ver == Version_parse(ds_version)
                        first == IF ver.patch # 0
                                 THEN DownloadCall(base_version(ver),
                                                   BaseTimeout(ds_timeout))
                                 ELSE DownloadCall(ds_version, ds_timeout)
                    IN  /\ ds_pc' = IF ver.patch # 0 THEN "base" ELSE "target"
                        /\ op' = "_download_version"
                        /\ timeout' = first.timeout
                        /\ issued' = Append(issued, first)
                        /\ stage_pc' = "call"
                        /\ UNCHANGED stage_error
    /\ UNCHANGED <<output, retval, ds_version, ds_timeout, sent>>
    /\ UNCHANGED <<job, client, now, start_time, status, n_sleeps, n_polls, poll_pc>>
    /\ UNCHANGED otherThanStage

\* the download of the base came back: line 203 is reached unless it raised
DownloadSoftware_AfterBase ==
    /\ ds_pc = "base"
    /\ stage_pc \in {"returned", "raised"}
    /\ IF stage_pc = "raised"
       THEN /\ ds_pc' = "raised"
            /\ UNCHANGED <<op, stage_pc, issued, timeout>>
       ELSE /\ ds_pc' = "target"
            /\ op' = "_download_version"
            /\ timeout' = ds_timeout
            /\ issued' = Append(issued, DownloadCall(ds_version, ds_timeout))
            /\ stage_pc' = "call"
    /\ UNCHANGED <<output, retval, stage_error, ds_version, ds_timeout, sent>>
    /\ UNCHANGED <<job, client, now, start_time, status, n_sleeps, n_polls,
                   progress, poll_pc>>
    /\ UNCHANGED otherThanStage

\* the download of the version came back
DownloadSoftware_AfterTarget ==
    /\ ds_pc = "target"
    /\ stage_pc \in {"returned", "raised"}
    /\ ds_pc' = stage_pc
    /\ UNCHANGED <<op, output, retval, stage_error, stage_pc, ds_version,
                   ds_timeout, issued, sent>>
    /\ UNCHANGED <<pollVars, otherThanStage>>

StageNext ==
    \/ Stage_Call
    \/ Stage_AfterPoller
    \/ DownloadSoftware_Call
    \/ DownloadSoftware_AfterBase
    \/ DownloadSoftware_AfterTarget
    \/ PollNext

\* the versions download_software is called with
DownloadVersions ==
    {VerStr(10, 2, 0, 0), VerStr(10, 2, MaxPatch, 0), VerStr(MaxMajor, 1, 2, MaxHotfix),
     EmptyString}

\* the timeouts the stage operations are called with: one is odd
StageTimeouts == {TimeoutStep, TimeoutStep + CmdTime}

\* ------------- get_current_version, check_available_versions and reboot
(***************************************************************************)
(* The operations of PANOSUpgrader that send their commands and return.    *)
(* An upgrader that has a client has one connected session.                *)
(***************************************************************************)
SimpleOps == {"get_current_version", "check_available_versions", "reboot"}

\* state these operations leave alone
simpleFrame ==
    <<planVars, runVars, ssh_timeout, ssh_poll_interval, ssh_start_time, attempt,
      result, session, ssh_pc, job, timeout, now, start_time, status, n_sleeps,
      n_polls, poll_pc, op, ds_version, ds_timeout, issued, ds_pc, licVars,
      workerVars, cfgVars>>

\* what get_panos_version reads from "show system info": ssh_client.py
\* 211-226
ReportedVersions == {EmptyString, VerStr(10, 2, 1, MaxHotfix)}

\* panos_upgrade.py 161-168
GetCurrentVersion_Call_Sends ==
    /\ stage_pc = "call"
    /\ op = "get_current_version"
    /\ \E r \in {Returns({v}) : v \in ReportedVersions} \cup {Raises} :
          /\ sent' = Append(sent, "show system info")
          /\ output' = r
          /\ IF r.raised
             THEN /\ stage_pc' = "raised"
                  /\ stage_error' = "Exception"
                  /\ UNCHANGED <<retval, progress>>
             ELSE /\ stage_pc' = "returned"
                  /\ retval' = Value(r.text)
                  /\ progress' = "Current PAN-OS version: <version>"
                  /\ UNCHANGED stage_error
    /\ UNCHANGED <<client, connected>>
    /\ UNCHANGED simpleFrame

GetCurrentVersion_Call ==
    /\ stage_pc = "call"
    /\ op = "get_current_version"
    /\ IF ~client
       THEN /\ stage_pc' = "raised"
            /\ stage_error' = "RuntimeError_not_connected"
            /\ UNCHANGED <<sent, output, retval, progress>>
       ELSE \E r \in {Returns({v}) : v \in ReportedVersions} \cup {Raises} :
               /\ sent' = Append(sent, "show system info")
               /\ output' = r
               /\ IF r.raised
                  THEN /\ stage_pc' = "raised"
                       /\ stage_error' = "Exception"
                       /\ UNCHANGED <<retval, progress>>
                  ELSE /\ stage_pc' = "returned"
                       /\ retval' = Value(r.text)
                       /\ progress' = "Current PAN-OS version: <version>"
                       /\ UNCHANGED stage_error
    /\ UNCHANGED <<client, connected>>
    /\ UNCHANGED simpleFrame

\* panos_upgrade.py 170-180
CheckAvailableVersions_Call ==
    /\ stage_pc = "call"
    /\ op = "check_available_versions"
    /\ IF ~client
       THEN /\ stage_pc' = "raised"
            /\ stage_error' = "RuntimeError_not_connected"
            /\ UNCHANGED <<sent, output, retval, progress>>
       ELSE /\ progress' = "Checking available software versions..."
            /\ sent' = Append(sent, "request system software check")
            /\ \E r \in {NoStatus, Raises} :
                  /\ output' = r
                  /\ IF r.raised
                     THEN /\ stage_pc' = "raised"
                          /\ stage_error' = "Exception"
                          /\ UNCHANGED retval
                     ELSE /\ stage_pc' = "returned"
                          /\ retval' = Value(r.text)
                          /\ UNCHANGED stage_error
    /\ UNCHANGED <<client, connected>>
    /\ UNCHANGED simpleFrame

\* reboot, where control goes after "request restart system" came back or
\* raised: panos_upgrade.py 326-332
AfterRestart_Raises(r) == IF r.raised THEN "raised" ELSE "confirm"

AfterRestart(r) == IF r.raised THEN "disconnect" ELSE "confirm"

\* panos_upgrade.py 319-327
Reboot_Call ==
    /\ stage_pc = "call"
    /\ op = "reboot"
    /\ IF ~client
       THEN /\ stage_pc' = "raised"
            /\ stage_error' = "RuntimeError_not_connected"
            /\ UNCHANGED <<sent, output, progress>>
       ELSE /\ progress' = "Rebooting firewall..."
            /\ sent' = Append(sent, "request restart system")
            /\ \E r \in {NoStatus, Raises} :
                  /\ output' = r
                  /\ stage_pc' = AfterRestart(r)
                  /\ stage_error' = IF AfterRestart(r) = "raised"
                                    THEN "Exception" ELSE stage_error
    /\ UNCHANGED <<retval, client, connected>>
    /\ UNCHANGED simpleFrame

\* the confirmation: panos_upgrade.py 328-332
Reboot_Confirm ==
    /\ stage_pc = "confirm"
    /\ sent' = Append(sent, "y")
    /\ \E r \in {NoStatus, Raises} : output' = r
    /\ stage_pc' = "disconnect"
    /\ UNCHANGED <<retval, stage_error, progress, client, connected>>
    /\ UNCHANGED simpleFrame

\* self.disconnect(): panos_upgrade.py 334 (155-159), ssh_client.py 59-68
Reboot_Disconnect ==
    /\ stage_pc = "disconnect"
    /\ connected' = connected - 1
    /\ client' = FALSE
    /\ retval' = None
    /\ stage_pc' = "returned"
    /\ UNCHANGED <<sent, output, stage_error, progress>>
    /\ UNCHANGED simpleFrame

UpgraderNext ==
    \/ GetCurrentVersion_Call
    \/ CheckAvailableVersions_Call
    \/ Reboot_Call
    \/ Reboot_Confirm
    \/ Reboot_Disconnect
    \/ StageNext

\* -------------------------------------------- stage operation properties
\* the markers that say the device queued or started the job
EnqueuedMarker(o, s) ==
    CASE o = "download_latest_content" -> "download job enqueued" \in s
      [] o = "install_latest_content" -> "install job enqueued" \in s
      [] o = "_download_version" -> "download job enqueued" \in s \/ "started" \in s
      [] o = "install_software" -> "install job enqueued" \in s \/ "started" \in s
      [] OTHER -> FALSE

\* the markers of an immediate success and of work already done
DoneMarkers(o) ==
    CASE o = "download_latest_content" ->
            {"already downloaded", "download succeeded", "successfully"}
      [] o = "install_latest_content" ->
            {"successfully", "installed", "already installed"}
      [] o = "_download_version" -> {"already downloaded", "successfully"}
      [] o = "install_software" -> {"successfully", "installed"}
      [] OTHER -> {}

OnlyDone(o, s) == s # {} /\ s \subseteq DoneMarkers(o)

\* a step in which the operation sent its trigger command and got a text
Triggered ==
    /\ stage_pc = "call"
    /\ stage_pc' # "call"
    /\ stage_error' # "RuntimeError_not_connected"
    /\ ~output'.raised

StatusPollIssued == n_polls' = n_polls + 1

\* C11: in content download, content install, firmware download and
\* firmware install a status poll is issued only while the operation is
\* polling after a trigger output that held an enqueued/started marker, and
\* a trigger output holding only immediate-success or already-done markers
\* makes the operation return without starting a poller.
C11_PollOnlyAfterEnqueued ==
    /\ [][StatusPollIssued =>
            /\ stage_pc = "polling"
            /\ ~output.raised
            /\ EnqueuedMarker(op, output.text)]_vars
    /\ [][(Triggered /\ OnlyDone(op, output'.text)) =>
            /\ stage_pc' = "returned"
            /\ poll_pc' = poll_pc
            /\ n_polls' = n_polls]_vars

C11_Witness ==
    /\ ds_pc = "returned"
    /\ Len(issued) = 2
    /\ n_polls >= 1
    /\ OnlyDone(op, output.text)

\* C12: a trigger output holding none of the operation's markers makes
\* content download, content install, license fetch, firmware download and
\* firmware install return without raising and without polling; the content
\* and license operations return that output, the firmware ones nothing.
C12_UnknownOutputReturns ==
    [][(Triggered /\ output'.text \cap TriggerMarkers(op) = {}) =>
            /\ stage_pc' = "returned"
            /\ stage_error' = ""
            /\ poll_pc' = poll_pc
            /\ retval' = IF op \in UpgraderOps THEN None ELSE Value(output'.text)]_vars

C12_Witness ==
    /\ op = "fetch_licenses"
    /\ stage_pc = "returned"
    /\ output = Returns({})
    /\ retval = Value({})
    /\ progress = "License fetch completed"

\* C13: download_software with a non-zero patch issues the download of the
\* X.Y.0 base with timeout // 2 first and the download of the version with
\* the full timeout only after the first returned; with patch 0 it issues
\* the one download of the version; a second download is never issued after
\* the first raised.
C13_BaseFirst ==
    /\ [](Len(issued) >= 1 =>
            LET ver == Version_parse(ds_version)
                base == VerStr(ver.major, ver.minor, 0, 0)
            IN  /\ Len(issued) <= 2
                /\ ver.patch # 0 =>
                      issued[1] = DownloadCall(base, ds_timeout \div 2)
                /\ ver.patch = 0 =>
                      issued = <<DownloadCall(ds_version, ds_timeout)>>
                /\ Len(issued) = 2 => issued[2] = DownloadCall(ds_version, ds_timeout)
                /\ ds_pc = "returned" =>
                      Len(issued) = (IF ver.patch # 0 THEN 2 ELSE 1))
    /\ [][(Len(issued) = 1 /\ issued' # issued) => stage_pc = "returned"]_vars
    /\ [][(ds_pc = "base" /\ stage_pc = "raised") => issued' = issued]_vars

C13_Witness ==
    /\ ds_pc = "returned"
    /\ ds_timeout % 2 = 1
    /\ ds_version.hotfix # 0
    /\ Len(issued) = 2

C13_WitnessBaseRaised ==
    /\ ds_pc = "raised"
    /\ stage_pc = "raised"
    /\ Version_parse(ds_version).patch # 0
    /\ Len(issued) = 1

\* ----------------------------- properties of the upgrader's operations
\* C23: reboot called on an upgrader with a client sends the restart
\* command and, unless that raised, the confirmation; whatever the two
\* commands raise it goes on to disconnect, and it returns with the session
\* disconnected and the client unset.  It raises only when called without a
\* client, and then it is Not connected and nothing was sent.
C23_RebootSuppressesErrors ==
    /\ [][(op = "reboot" /\ stage_pc = "call" /\ client) =>
            /\ stage_pc' = (IF output'.raised THEN "disconnect" ELSE "confirm")
            /\ stage_error' = ""
            /\ sent' = <<"request restart system">>]_vars
    /\ [][(op = "reboot" /\ stage_pc = "confirm") =>
            /\ stage_pc' = "disconnect"
            /\ stage_error' = ""
            /\ sent' = <<"request restart system", "y">>]_vars
    /\ [][(op = "reboot" /\ stage_pc = "disconnect") =>
            /\ stage_pc' = "returned"
            /\ connected' = connected - 1
            /\ sent' = sent]_vars
    /\ [](op = "reboot" /\ stage_pc = "returned" =>
            /\ ~client
            /\ connected = 0
            /\ stage_error = ""
            /\ sent # <<>>)
    /\ [][(op = "reboot" /\ stage_pc = "call" /\ ~client) =>
            /\ stage_pc' = "raised"
            /\ stage_error' = "RuntimeError_not_connected"
            /\ sent' = <<>>
            /\ UNCHANGED <<client, connected, output, progress>>]_vars
    /\ [](op = "reboot" /\ stage_pc = "raised" =>
            stage_error = "RuntimeError_not_connected" /\ sent = <<>>)

C23_Witness ==
    /\ op = "reboot"
    /\ stage_pc = "returned"
    /\ sent = <<"request restart system", "y">>
    /\ output.raised
    /\ ~client
    /\ connected = 0

\* the restart command itself raised, and reboot returned
C23_WitnessRestartRaised ==
    /\ op = "reboot"
    /\ stage_pc = "returned"
    /\ sent = <<"request restart system">>
    /\ output.raised
    /\ connected = 0

\* an operation of the upgrader is entered
Entered == stage_pc = "call" \/ ds_pc = "call" \/ poll_pc = "call"

\* C29: get_current_version, check_available_versions, download_software,
\* _download_version, the two software pollers, install_software and reboot,
\* entered on an upgrader without a client, raise Not connected at once:
\* no command is sent, no message is given to the progress callback, and
\* the client, the sessions and every other variable stay as they were.
C29_NotConnected ==
    /\ [][(Entered /\ ~client) =>
            /\ stage_pc = "call" =>
                  stage_pc' = "raised" /\ stage_error' = "RuntimeError_not_connected"
            /\ ds_pc = "call" =>
                  ds_pc' = "raised" /\ stage_error' = "RuntimeError_not_connected"
            /\ poll_pc = "call" => poll_pc' = "RuntimeError_not_connected"
            /\ UNCHANGED <<sent, output, status, n_polls, n_sleeps, issued, retval,
                           progress, now, client, connected, op, job>>]_vars
    /\ [](stage_error = "RuntimeError_not_connected"
            \/ poll_pc = "RuntimeError_not_connected" =>
            /\ ~client
            /\ sent = <<>>
            /\ output = NoStatus
            /\ status = NoStatus
            /\ n_polls = 0
            /\ issued = <<>>
            /\ progress = "")

C29_Witness ==
    /\ op = "get_current_version"
    /\ stage_pc = "raised"
    /\ stage_error = "RuntimeError_not_connected"
    /\ ~client
    /\ sent = <<>>

\* a software poller entered without a client
C29_WitnessPoller ==
    /\ job = "software_install"
    /\ poll_pc = "RuntimeError_not_connected"
    /\ ~client
    /\ n_sleeps = 0

\* ------------------------------------------------------- progress values
IsRun == routine = "run"

\* self.total_phases: main.py 31
TotalPhases == 4

\* a phase-local progress value, kept as an exact fraction
Pct(n) == [num |-> n, den |-> 1]

\* step_progress + plus in hop h of a path of total hops, where
\* step_progress = (i / total_steps) * 100 and i = h - 1: main.py 307-332
StepProgress(h, total, plus) ==
    [num |-> (h - 1) * 100 + plus * total, den |-> total]

\* _update_progress: main.py 33-41.  phase_weight = 100 / total_phases and
\* overall = current_phase * phase_weight + phase_progress * phase_weight / 100
Overall(phase, pp) ==
    [num |-> phase * 100 * pp.den + pp.num, den |-> TotalPhases * pp.den]

\* the value lies between 0 and 100 inclusive
InRange(q) == 0 <= q.num /\ q.num <= 100 * q.den

\* gui.update_progress hands the value to the progress bar as it is:
\* gui.py 378-381.  Only run has a gui.
Sunk(pps) ==
    IF IsRun THEN overall \cup {Overall(current_phase, pp) : pp \in pps}
    ELSE overall

\* the value the lambda given to wait_for_ssh in phase 2 passes: main.py 178
Phase2WaitProgress == 20

\* the value the lambda given to the component of a phase passes:
\* main.py 119, 203, 246, 285
PhaseCallback(p) ==
    CASE p = 0 -> 50
      [] p = 1 -> 70
      [] p = 2 -> 50
      [] p = 3 -> 50

\* the value _update_progress is given before a call of phase 1, 2 or 3:
\* main.py 108-141, 191-200, 235-252
BeforeCall(p, name) ==
    CASE name = "connect" -> (IF p = 1 THEN 30 ELSE 10)
      [] name = "set_management_ip" -> 30
      [] name = "set_dns_servers" -> 50
      [] name = "change_admin_password" -> 70
      [] name = "commit_configuration" -> 85
      [] name = "fetch_licenses" -> 50
      [] name = "download_latest_content" -> 30
      [] name = "install_latest_content" -> 70

\* what is added to step_progress before a call of a hop: main.py 320, 324
BeforeHopCall(name) ==
    CASE name = "check_available_versions" -> {}
      [] name = "download_software" -> {10}
      [] name = "install_software" -> {40}

\* --------------------------------------------------------- wait_for_ssh
\* the poll intervals wait_for_ssh is called with
Phase2PollInterval == 15

RebootPollInterval == 30

SshPollIntervals == {Phase2PollInterval, RebootPollInterval}

\* what sock.connect_ex gives: 0, an error number, or an exception
ProbeResults == {"0", "errno", "Exception"}

\* ssh_client.py 255-256
WaitForSsh_Call ==
    /\ ssh_pc = "call"
    /\ ssh_start_time' = now
    /\ attempt' = 0
    /\ ssh_pc' = "test"
    /\ UNCHANGED <<ssh_timeout, ssh_poll_interval, result, session, connected>>
    /\ UNCHANGED pollVars
    /\ UNCHANGED otherThanSsh

\* ssh_client.py 258-265 and 297-298: the while test, then the head of the
\* loop body or the return after the loop
WaitForSsh_Test ==
    /\ ssh_pc = "test"
    /\ IF LoopCondition(now, ssh_start_time, ssh_timeout)
       THEN /\ attempt' = attempt + 1
            /\ progress' = "Waiting for SSH... Attempt N"
            /\ ssh_pc' = "probe"
            /\ overall' = Sunk({Pct(IF run_pc = "phase2_waiting"
                                     THEN Phase2WaitProgress
                                     ELSE PhaseCallback(current_phase))})
       ELSE /\ ssh_pc' = "False"
            /\ UNCHANGED <<attempt, progress, overall>>
    /\ UNCHANGED <<ssh_timeout, ssh_poll_interval, ssh_start_time, result, session,
                   connected>>
    /\ UNCHANGED <<job, client, timeout, now, start_time, status, n_sleeps, n_polls,
                   poll_pc>>
    /\ UNCHANGED <<planVars, stageVars, runButOverall, licVars,
                   workerVars, cfgVars>>

\* ssh_client.py 274-283: after the probe
AfterProbe_IgnoresResult(r) == "connect"

AfterProbe(r) == IF r = "0" THEN "connect" ELSE "sleep"

\* ssh_client.py 286-295: after connect() and "show clock"; the except
\* clause catches what either raises and falls to the sleep
AfterSession_Raises(s) ==
    IF s = "disconnected" THEN "True"
    ELSE IF s = "command raised" THEN "Exception" ELSE "sleep"

AfterSession(s) == IF s = "disconnected" THEN "True" ELSE "sleep"

\* ssh_client.py 268-281: the TCP probe; a port that is not open and a
\* socket exception both lead to the sleep
WaitForSsh_Probe ==
    /\ ssh_pc = "probe"
    /\ \E r \in ProbeResults, d \in {0, CmdTime} :
          /\ result' = r
          /\ now' = now + d
          /\ ssh_pc' = AfterProbe(r)
    /\ UNCHANGED <<ssh_timeout, ssh_poll_interval, ssh_start_time, attempt, session,
                   connected>>
    /\ UNCHANGED <<job, client, timeout, start_time, status, n_sleeps, n_polls,
                   progress, poll_pc>>
    /\ UNCHANGED otherThanSsh

\* ssh_client.py 285-286: client.connect() gives a session or raises
WaitForSsh_Connect ==
    /\ ssh_pc = "connect"
    /\ \E s \in {"connected", "connect raised"} :
          /\ session' = s
          /\ connected' = IF s = "connected" THEN connected + 1 ELSE connected
          /\ ssh_pc' = IF s = "connected" THEN "liveness" ELSE AfterSession(s)
    /\ UNCHANGED <<ssh_timeout, ssh_poll_interval, ssh_start_time, attempt, result>>
    /\ UNCHANGED pollVars
    /\ UNCHANGED otherThanSsh

\* ssh_client.py 288-293: "show clock" returns, and then the session is
\* disconnected and True returned; or it raises, and the except clause is
\* all that runs
WaitForSsh_Liveness ==
    /\ ssh_pc = "liveness"
    /\ \E s \in {"disconnected", "command raised"} :
          /\ session' = s
          /\ connected' = IF s = "disconnected" THEN connected - 1 ELSE connected
          /\ ssh_pc' = AfterSession(s)
    /\ UNCHANGED <<ssh_timeout, ssh_poll_interval, ssh_start_time, attempt, result>>
    /\ UNCHANGED pollVars
    /\ UNCHANGED otherThanSsh

\* ssh_client.py 276, 280, 295: time.sleep(poll_interval)
WaitForSsh_Sleep ==
    /\ ssh_pc = "sleep"
    /\ now' = now + ssh_poll_interval
    /\ ssh_pc' = "test"
    /\ UNCHANGED <<ssh_timeout, ssh_poll_interval, ssh_start_time, attempt, result,
                   session, connected>>
    /\ UNCHANGED <<job, client, timeout, start_time, status, n_sleeps, n_polls,
                   progress, poll_pc>>
    /\ UNCHANGED otherThanSsh

SshNext ==
    \/ WaitForSsh_Call
    \/ WaitForSsh_Test
    \/ WaitForSsh_Probe
    \/ WaitForSsh_Connect
    \/ WaitForSsh_Liveness
    \/ WaitForSsh_Sleep

\* ------------------------------------------------ wait_for_ssh properties
SshEnded == ssh_pc \in {"True", "False"}

\* C14: wait_for_ssh returns True in the step in which the liveness command
\* of an attempt succeeded, that attempt's TCP probe and session having
\* succeeded (a session is tried only after the attempt's probe gave 0), and
\* it returns False exactly when the loop test finds the elapsed time at or
\* past the timeout.
C14_TrueOnFirstSuccess ==
    /\ [](ssh_pc \in {"connect", "liveness"} => (result = "0" /\ attempt >= 1))
    /\ [][(ssh_pc = "liveness" /\ session' = "disconnected") => ssh_pc' = "True"]_vars
    /\ [][(ssh_pc' = "True" /\ ssh_pc # "True") =>
            /\ ssh_pc = "liveness"
            /\ result = "0"
            /\ session = "connected"
            /\ session' = "disconnected"]_vars
    /\ [][ssh_pc = "test" =>
            (ssh_pc' = "False" <=> now - ssh_start_time >= ssh_timeout)]_vars
    /\ [][(ssh_pc' = "False" /\ ssh_pc # "False") => ssh_pc = "test"]_vars

C14_Witness ==
    /\ ssh_pc = "True"
    /\ attempt >= 2
    /\ ssh_timeout > 0
    /\ now - ssh_start_time >= ssh_timeout

C14_WitnessFalse ==
    /\ ssh_pc = "False"
    /\ attempt >= 2
    /\ result = "0"

\* C15: a TCP probe that gives an error number or raises, a connect that
\* raises and a liveness command that raises each lead to one sleep of
\* poll_interval seconds and back to the loop test; wait_for_ssh ends, and
\* only by returning True or False.
C15_FailuresRetried ==
    /\ [][(ssh_pc = "probe" /\ result' # "0") => ssh_pc' = "sleep"]_vars
    /\ [][(ssh_pc = "connect" /\ session' = "connect raised") => ssh_pc' = "sleep"]_vars
    /\ [][(ssh_pc = "liveness" /\ session' = "command raised") => ssh_pc' = "sleep"]_vars
    /\ [][ssh_pc = "sleep" =>
            (now' = now + ssh_poll_interval /\ ssh_pc' = "test")]_vars
    /\ [](ssh_pc \in {"call", "test", "probe", "connect", "liveness", "sleep",
                      "True", "False"})
    /\ <>SshEnded

C15_Witness ==
    /\ ssh_pc = "True"
    /\ attempt >= 3
    /\ connected >= 1

\* C16: at most one SSH session is connected at any time, the sessions of
\* wait_for_ssh included.
C16_AtMostOneSession == connected <= 1

\* ------------------------- upgrade_to_version and the setup orchestrator
(***************************************************************************)
(* PANOSUpgrader.upgrade_to_version and FirewallSetupOrchestrator.run, the *)
(* four phase methods included.  get_upgrade_path and wait_for_ssh run as  *)
(* the actions above.  Every other call on the device returns or raises,   *)
(* as the device decides; calls records each of them in order.  The GUI    *)
(* methods schedule their work with root.after and return.                 *)
(***************************************************************************)
\* the settle time of wait_for_reboot, and the timeouts (scaled down) the
\* two waits are called with
RebootSettle == 60

RebootTimeout == 100

Phase2Timeout == 20

\* a call on the device: the method, the hop it belongs to (0 for none) and
\* the version it is given (EmptyString for none)
Call(o, h, v) == [op |-> o, hop |-> h, version |-> v]

\* the calls of phases 1, 2 and 3 inside their try blocks
PhaseCalls(p) ==
    CASE p = 0 -> <<"connect", "set_management_ip", "set_dns_servers",
                    "change_admin_password", "commit_configuration">>
      [] p = 1 -> <<"connect", "fetch_licenses">>
      [] p = 2 -> <<"connect", "download_latest_content", "install_latest_content">>

\* the title each phase gives to gui.show_error in its except clause
PhaseTitle(p) ==
    CASE p = 0 -> "Initial Configuration Failed"
      [] p = 1 -> "Licensing Failed"
      [] p = 2 -> "Content Update Failed"
      [] p = 3 -> "PAN-OS Upgrade Failed"

\* an exception: the phrases its text holds and the version the text names
\* (EmptyString for none)
Error(words, v) == [raised |-> TRUE, words |-> words, version |-> v]

NoError == [raised |-> FALSE, words |-> {}, version |-> EmptyString]

\* RuntimeError("Not connected"): panos_upgrade.py 164, 173, 190, 322
NotConnectedError == Error({"not connected"}, EmptyString)

\* ValueError("Invalid version format: ..."): panos_upgrade.py 45
InvalidVersionError == Error({"invalid version format"}, EmptyString)

\* RuntimeError("Firewall did not come back after upgrading to <version>"):
\* panos_upgrade.py 412, main.py 334
DidNotComeBackError(v) == Error({"did not come back"}, v)

\* what a call on the device, or the stage operation that makes it, raises:
\* a text that holds "timed out", one that holds "license", and one that
\* holds no phrase get_error_suggestion knows
DeviceErrors ==
    {Error({"timed out"}, EmptyString), Error({"license"}, EmptyString),
     Error({}, EmptyString)}

\* utils.py 52-71
get_error_suggestion(e) ==
    IF "authentication" \in e.words \/ "password" \in e.words
    THEN "Check the username and password. The default is admin/admin."
    ELSE IF "timeout" \in e.words \/ "timed out" \in e.words
    THEN "The firewall may be unreachable. Check network connectivity and IP address."
    ELSE IF "connection refused" \in e.words
    THEN "SSH may not be enabled or the firewall is not ready. Wait and try again."
    ELSE IF "host key" \in e.words
    THEN "SSH host key verification failed. This may be a new or reset firewall."
    ELSE IF "no route" \in e.words \/ "network is unreachable" \in e.words
    THEN "Cannot reach the firewall. Check that you're on the correct network."
    ELSE IF "license" \in e.words
    THEN "License operation failed. Ensure the firewall has internet access."
    ELSE IF "commit" \in e.words
    THEN "Configuration commit failed. Check for conflicting settings."
    ELSE "Check the logs for more details and try again."

\* a call of gui.show_error(title, message): the title, the exception the
\* message quotes and the hint that ends the message
ShownError(title, e, hint) == [title |-> title, error |-> e, hint |-> hint]

\* the except clause of a phase method: main.py 147-154, 210-217, 258-265,
\* 346-353
PhaseError(p, e) == ShownError(PhaseTitle(p), e, get_error_suggestion(e))

\* main.py 180-186: wait_for_ssh gave False
ConnectionFailed ==
    ShownError("Connection Failed", NoError,
               "The firewall may still be committing or restarting services.")

\* PANOSSSHClient.disconnect: closes the connection if there is one
AfterDisconnect(n, c, l) == IF c /\ l THEN n - 1 ELSE n

\* what get_current_version can give
DeviceVersions == {EmptyString, VerStr(10, 1, 0, 0), VerStr(10, 2, 1, MaxHotfix)}

\* config.target_version, the argument of upgrade_to_version
TargetVersions == {VerStr(10, 1, 0, 0), VerStr(10, 2, 4, 0), VerStr(11, 1, 2, 0)}

\* state no action of the two routines writes
runUntouched ==
    <<stageVars, job, timeout, start_time, status, n_sleeps, n_polls, poll_pc,
      ssh_start_time, attempt, result, session, upgrade_paths, target_version,
      working_version, path, cancelled_at, licVars,
      workerVars, cfgVars>>

\* main.py 54-56
Run_Begin ==
    /\ run_pc = "run"
    /\ current_phase' = 0
    /\ run_pc' = "phase_begin"
    /\ UNCHANGED <<routine, step, hop, new_version, live, cancelled, phase_ok,
                   outcome, failure, calls, shown>>
    /\ UNCHANGED <<client, now, progress, ssh_timeout, ssh_poll_interval, ssh_pc,
                   connected, current_version, plan_pc>>
    /\ UNCHANGED <<error, warnings, overall>>
    /\ UNCHANGED runUntouched

\* the head of a phase method: main.py 103-105, 167-179, 230-232, 278-286
Phase_Begin ==
    /\ run_pc = "phase_begin"
    /\ progress' = "Phase N"
    /\ IF current_phase = 1
       THEN /\ ssh_timeout' = Phase2Timeout
            /\ ssh_poll_interval' = Phase2PollInterval
            /\ ssh_pc' = "call"
            /\ run_pc' = "phase2_waiting"
            /\ UNCHANGED <<client, live, step>>
       ELSE /\ client' = FALSE
            /\ live' = FALSE
            /\ step' = 1
            /\ run_pc' = IF current_phase = 3 THEN "u_connect" ELSE "phase_step"
            /\ UNCHANGED <<ssh_timeout, ssh_poll_interval, ssh_pc>>
    /\ UNCHANGED <<routine, current_phase, hop, new_version, cancelled, phase_ok,
                   outcome, failure, calls, shown>>
    /\ UNCHANGED <<now, connected, current_version, plan_pc>>
    /\ overall' = Sunk({Pct(0)} \cup (IF current_phase = 1 THEN {Pct(10)} ELSE {}))
    /\ UNCHANGED <<error, warnings>>
    /\ UNCHANGED runUntouched

\* main.py 172-188: wait_for_ssh came back
Phase2_AfterWait_Silent ==
    /\ run_pc = "phase2_waiting"
    /\ ssh_pc \in {"True", "False"}
    /\ IF ssh_pc = "False"
       THEN /\ failure' = "wait_for_ssh"
            /\ phase_ok' = FALSE
            /\ run_pc' = "phase_returned"
            /\ UNCHANGED <<client, live, step>>
       ELSE /\ client' = FALSE
            /\ live' = FALSE
            /\ step' = 1
            /\ run_pc' = "phase_step"
            /\ UNCHANGED <<failure, phase_ok>>
    /\ UNCHANGED <<routine, current_phase, hop, new_version, cancelled, outcome,
                   calls, shown>>
    /\ UNCHANGED <<now, progress, ssh_timeout, ssh_poll_interval, ssh_pc, connected,
                   current_version, plan_pc>>
    /\ UNCHANGED <<error, warnings, overall>>
    /\ UNCHANGED runUntouched

Phase2_AfterWait ==
    /\ run_pc = "phase2_waiting"
    /\ ssh_pc \in {"True", "False"}
    /\ IF ssh_pc = "False"
       THEN /\ shown' = Append(shown, ConnectionFailed)
            /\ failure' = "wait_for_ssh"
            /\ phase_ok' = FALSE
            /\ run_pc' = "phase_returned"
            /\ UNCHANGED <<client, live, step>>
       ELSE /\ client' = FALSE
            /\ live' = FALSE
            /\ step' = 1
            /\ run_pc' = "phase_step"
            /\ UNCHANGED <<shown, failure, phase_ok>>
    /\ UNCHANGED <<routine, current_phase, hop, new_version, cancelled, outcome,
                   calls>>
    /\ UNCHANGED <<now, progress, ssh_timeout, ssh_poll_interval, ssh_pc, connected,
                   current_version, plan_pc>>
    /\ UNCHANGED <<error, warnings, overall>>
    /\ UNCHANGED runUntouched

\* one call of the try block of phase 1, 2 or 3, and on an exception the
\* except clause: main.py 106-154, 189-217, 233-265
Phase_Step ==
    /\ run_pc = "phase_step"
    /\ LET name == PhaseCalls(current_phase)[step]
       IN  \E r \in {NoError} \cup DeviceErrors :
           LET ok == ~r.raised
           IN
              /\ calls' = Append(calls, Call(name, 0, EmptyString))
              /\ progress' = name
              /\ client' = IF name = "connect" THEN TRUE ELSE client
              /\ live' = IF name = "connect" THEN ok ELSE live
              /\ connected' = IF name = "connect" /\ ok
                              THEN connected + 1 ELSE connected
              /\ IF ok
                 THEN /\ IF step = Len(PhaseCalls(current_phase))
                         THEN /\ phase_ok' = TRUE
                              /\ run_pc' = "phase_finally"
                              /\ UNCHANGED step
                         ELSE /\ step' = step + 1
                              /\ UNCHANGED <<phase_ok, run_pc>>
                      /\ UNCHANGED <<failure, shown, error>>
                 ELSE /\ failure' = name
                      /\ error' = r
                      /\ shown' = Append(shown, PhaseError(current_phase, r))
                      /\ phase_ok' = FALSE
                      /\ run_pc' = "phase_finally"
                      /\ UNCHANGED step
    /\ UNCHANGED <<routine, current_phase, hop, new_version, cancelled, outcome>>
    /\ UNCHANGED <<now, ssh_timeout, ssh_poll_interval, ssh_pc, current_version,
                   plan_pc>>
    /\ overall' = Sunk({Pct(BeforeCall(current_phase, PhaseCalls(current_phase)[step]))}
                        \cup (IF PhaseCalls(current_phase)[step] = "connect"
                              THEN {} ELSE {Pct(PhaseCallback(current_phase))})
                        \cup (IF run_pc' = "phase_finally" /\ phase_ok'
                              THEN {Pct(100)} ELSE {}))
    /\ UNCHANGED warnings
    /\ UNCHANGED runUntouched

\* the finally clause of phase 1, 2 or 3: main.py 156-158, 219-221, 267-269
Phase_Finally ==
    /\ run_pc = "phase_finally"
    /\ connected' = AfterDisconnect(connected, client, live)
    /\ live' = FALSE
    /\ run_pc' = "phase_returned"
    /\ UNCHANGED <<routine, current_phase, step, hop, new_version, cancelled,
                   phase_ok, outcome, failure, calls, shown>>
    /\ UNCHANGED <<client, now, progress, ssh_timeout, ssh_poll_interval, ssh_pc,
                   current_version, plan_pc>>
    /\ UNCHANGED <<error, warnings, overall>>
    /\ UNCHANGED runUntouched

\* _check_cancelled: main.py 43-45, gui.py 407-409
check_cancelled_Never(c) == FALSE

check_cancelled(c) == c

\* run after a phase method returned: main.py 57-85
Run_AfterPhase_IgnoresFailure ==
    /\ run_pc = "phase_returned"
    /\ IF current_phase = 3
       THEN /\ progress' = "Setup complete!"
            /\ outcome' = IF phase_ok THEN "True" ELSE "False"
            /\ run_pc' = "done"
            /\ UNCHANGED current_phase
       ELSE IF check_cancelled(cancelled)
       THEN /\ outcome' = "False"
            /\ run_pc' = "done"
            /\ UNCHANGED <<current_phase, progress>>
       ELSE /\ current_phase' = current_phase + 1
            /\ run_pc' = "phase_begin"
            /\ UNCHANGED <<outcome, progress>>
    /\ UNCHANGED <<routine, step, hop, new_version, live, cancelled, phase_ok,
                   failure, calls, shown>>
    /\ UNCHANGED <<client, now, ssh_timeout, ssh_poll_interval, ssh_pc, connected,
                   current_version, plan_pc>>
    /\ overall' = IF outcome' = "True" THEN Sunk({Pct(100)}) ELSE overall
    /\ UNCHANGED <<error, warnings>>
    /\ UNCHANGED runUntouched

Run_AfterPhase ==
    /\ run_pc = "phase_returned"
    /\ IF ~phase_ok
       THEN /\ outcome' = "False"
            /\ run_pc' = "done"
            /\ UNCHANGED <<current_phase, progress>>
       ELSE IF current_phase = 3
       THEN /\ progress' = "Setup complete!"
            /\ outcome' = "True"
            /\ run_pc' = "done"
            /\ UNCHANGED current_phase
       ELSE IF check_cancelled(cancelled)
       THEN /\ outcome' = "False"
            /\ run_pc' = "done"
            /\ UNCHANGED <<current_phase, progress>>
       ELSE /\ current_phase' = current_phase + 1
            /\ run_pc' = "phase_begin"
            /\ UNCHANGED <<outcome, progress>>
    /\ UNCHANGED <<routine, step, hop, new_version, live, cancelled, phase_ok,
                   failure, calls, shown>>
    /\ UNCHANGED <<client, now, ssh_timeout, ssh_poll_interval, ssh_pc, connected,
                   current_version, plan_pc>>
    /\ overall' = IF outcome' = "True" THEN Sunk({Pct(100)}) ELSE overall
    /\ UNCHANGED <<error, warnings>>
    /\ UNCHANGED runUntouched

\* the user confirms the Cancel dialog while the setup runs: gui.py 327-334
Gui_Cancel ==
    /\ IsRun
    /\ run_pc \notin {"idle", "done"}
    /\ ~cancelled
    /\ cancelled' = TRUE
    /\ cancelled_at' = Len(calls)
    /\ UNCHANGED <<routine, run_pc, current_phase, step, hop, new_version, live,
                   phase_ok, outcome, failure, calls, shown>>
    /\ UNCHANGED <<client, now, progress, ssh_timeout, ssh_poll_interval, ssh_pc,
                   connected, current_version, plan_pc>>
    /\ UNCHANGED <<error, warnings, overall>>
    /\ UNCHANGED <<stageVars, job, timeout, start_time, status, n_sleeps, n_polls,
                   poll_pc, ssh_start_time, attempt, result, session, upgrade_paths,
                   target_version, working_version, path, licVars,
                   workerVars, cfgVars>>

\* state the steps of the upgrade leave alone unless they say otherwise
upgradeFrame ==
    <<routine, current_phase, step, cancelled, outcome, shown, now, ssh_timeout,
      ssh_poll_interval, ssh_pc>>

\* self.connect() at the start: panos_upgrade.py 383 (149-153), main.py 289
Up_Connect ==
    /\ run_pc = "u_connect"
    /\ calls' = Append(calls, Call("connect", 0, EmptyString))
    /\ progress' = "Connecting to <host>..."
    /\ client' = TRUE
    /\ \E r \in {NoError} \cup DeviceErrors :
          LET ok == ~r.raised
          IN
          /\ live' = ok
          /\ error' = IF ok THEN error ELSE r
          /\ connected' = IF ok THEN connected + 1 ELSE connected
          /\ run_pc' = IF ok THEN "u_version" ELSE "u_except"
          /\ failure' = IF ok THEN failure ELSE "connect"
    /\ UNCHANGED <<hop, new_version, phase_ok, current_version, plan_pc>>
    /\ UNCHANGED upgradeFrame
    /\ overall' = Sunk({Pct(PhaseCallback(current_phase))})
    /\ UNCHANGED warnings
    /\ UNCHANGED runUntouched

\* get_current_version, then the call of get_upgrade_path:
\* panos_upgrade.py 384-387 (161-168), main.py 290-293
Up_GetCurrentVersion ==
    /\ run_pc = "u_version"
    /\ calls' = Append(calls, Call("get_current_version", 0, EmptyString))
    /\ \E r \in {NoError} \cup DeviceErrors, v \in DeviceVersions :
          IF ~r.raised /\ client
          THEN /\ current_version' = v
               /\ progress' = "Current PAN-OS version: <version>"
               /\ plan_pc' = "call"
               /\ run_pc' = "u_plan"
               /\ UNCHANGED <<failure, error>>
          ELSE /\ failure' = "get_current_version"
               /\ error' = IF client THEN r ELSE NotConnectedError
               /\ run_pc' = "u_except"
               /\ UNCHANGED <<current_version, progress, plan_pc>>
    /\ UNCHANGED <<hop, new_version, phase_ok, client, live, connected>>
    /\ UNCHANGED upgradeFrame
    /\ overall' = IF run_pc' = "u_plan"
                   THEN Sunk({Pct(PhaseCallback(current_phase))}) ELSE overall
    /\ UNCHANGED warnings
    /\ UNCHANGED runUntouched

\* "if not path": panos_upgrade.py 389, main.py 295
EmptyPath_Never(p) == FALSE

EmptyPath(p) == p = <<>>

\* get_upgrade_path came back: panos_upgrade.py 387-393, main.py 293-304
Up_AfterPlan_ValueErrorIsNoUpgrade ==
    /\ run_pc = "u_plan"
    /\ plan_pc \in {"returned", "ValueError"}
    /\ IF EmptyPath(path)
       THEN /\ progress' = "Already at version <version>"
            /\ phase_ok' = TRUE
            /\ IF IsRun
               THEN /\ connected' = AfterDisconnect(connected, client, live)
                    /\ client' = FALSE
                    /\ live' = FALSE
                    /\ run_pc' = "phase_returned"
               ELSE /\ run_pc' = "u_finally"
                    /\ UNCHANGED <<client, live, connected>>
            /\ UNCHANGED <<hop, failure, error>>
       ELSE /\ progress' = "Upgrade path: <current> -> <path>"
            /\ hop' = 1
            /\ run_pc' = "u_hop"
            /\ UNCHANGED <<failure, error, phase_ok, client, live, connected>>
    /\ UNCHANGED <<new_version, calls, current_version, plan_pc>>
    /\ UNCHANGED upgradeFrame
    /\ overall' = Sunk({Pct(IF EmptyPath(path) THEN 100 ELSE 10)})
    /\ UNCHANGED warnings
    /\ UNCHANGED runUntouched

Up_AfterPlan ==
    /\ run_pc = "u_plan"
    /\ plan_pc \in {"returned", "ValueError"}
    /\ IF plan_pc = "ValueError"
       THEN /\ failure' = "get_upgrade_path"
            /\ error' = InvalidVersionError
            /\ run_pc' = "u_except"
            /\ UNCHANGED <<hop, phase_ok, progress, client, live, connected>>
       ELSE IF EmptyPath(path)
       THEN /\ progress' = "Already at version <version>"
            /\ phase_ok' = TRUE
            /\ IF IsRun
               THEN /\ connected' = AfterDisconnect(connected, client, live)
                    /\ client' = FALSE
                    /\ live' = FALSE
                    /\ run_pc' = "phase_returned"
               ELSE /\ run_pc' = "u_finally"
                    /\ UNCHANGED <<client, live, connected>>
            /\ UNCHANGED <<hop, failure, error>>
       ELSE /\ progress' = "Upgrade path: <current> -> <path>"
            /\ hop' = 1
            /\ run_pc' = "u_hop"
            /\ UNCHANGED <<failure, error, phase_ok, client, live, connected>>
    /\ UNCHANGED <<new_version, calls, current_version, plan_pc>>
    /\ UNCHANGED upgradeFrame
    /\ overall' = IF plan_pc = "ValueError" THEN overall
                   ELSE Sunk({Pct(IF EmptyPath(path) THEN 100 ELSE 10)})
    /\ UNCHANGED warnings
    /\ UNCHANGED runUntouched

\* the head of the loop over path and what follows the loop:
\* panos_upgrade.py 395-396 and 422-423, main.py 307-314
Up_Hop ==
    /\ run_pc = "u_hop"
    /\ IF hop > Len(path)
       THEN IF IsRun
            THEN /\ run_pc' = "u_final"
                 /\ UNCHANGED <<phase_ok, progress, client, live, connected>>
            ELSE /\ progress' = "Upgrade to <target> complete!"
                 /\ phase_ok' = TRUE
                 /\ run_pc' = "u_finally"
                 /\ UNCHANGED <<client, live, connected>>
       ELSE IF IsRun /\ check_cancelled(cancelled)
       THEN /\ connected' = AfterDisconnect(connected, client, live)
            /\ client' = FALSE
            /\ live' = FALSE
            /\ phase_ok' = FALSE
            /\ run_pc' = "phase_returned"
            /\ UNCHANGED progress
       ELSE /\ progress' = "Upgrading to <version>..."
            /\ run_pc' = "u_check"
            /\ UNCHANGED <<phase_ok, client, live, connected>>
    /\ UNCHANGED <<hop, new_version, failure, calls, current_version, plan_pc>>
    /\ UNCHANGED upgradeFrame
    /\ overall' = IF run_pc' = "u_check"
                   THEN Sunk({StepProgress(hop, Len(path), 0)}) ELSE overall
    /\ UNCHANGED <<error, warnings>>
    /\ UNCHANGED runUntouched

\* a call of the hop that returns or raises
HopCall_Cancellable(at, name, version, next) ==
    /\ run_pc = at
    /\ calls' = Append(calls, Call(name, hop, version))
    /\ progress' = name
    /\ \E r \in {NoError} \cup DeviceErrors :
          IF ~r.raised /\ client /\ ~cancelled
          THEN /\ run_pc' = next
               /\ UNCHANGED <<failure, error>>
          ELSE /\ failure' = IF cancelled THEN failure ELSE name
               /\ error' = IF client THEN r ELSE NotConnectedError
               /\ run_pc' = "u_except"
    /\ UNCHANGED <<hop, new_version, phase_ok, client, live, connected,
                   current_version, plan_pc>>
    /\ UNCHANGED upgradeFrame
    /\ overall' = Sunk({StepProgress(hop, Len(path), plus) :
                            plus \in BeforeHopCall(name)}
                        \cup (IF client THEN {Pct(PhaseCallback(current_phase))}
                              ELSE {}))
    /\ UNCHANGED warnings
    /\ UNCHANGED runUntouched

HopCall(at, name, version, next) ==
    /\ run_pc = at
    /\ calls' = Append(calls, Call(name, hop, version))
    /\ progress' = name
    /\ \E r \in {NoError} \cup DeviceErrors :
          IF ~r.raised /\ client
          THEN /\ run_pc' = next
               /\ UNCHANGED <<failure, error>>
          ELSE /\ failure' = name
               /\ error' = IF client THEN r ELSE NotConnectedError
               /\ run_pc' = "u_except"
    /\ UNCHANGED <<hop, new_version, phase_ok, client, live, connected,
                   current_version, plan_pc>>
    /\ UNCHANGED upgradeFrame
    /\ overall' = Sunk({StepProgress(hop, Len(path), plus) :
                            plus \in BeforeHopCall(name)}
                        \cup (IF client THEN {Pct(PhaseCallback(current_phase))}
                              ELSE {}))
    /\ UNCHANGED warnings
    /\ UNCHANGED runUntouched

\* panos_upgrade.py 399 (170-180), main.py 317
Up_Check == HopCall("u_check", "check_available_versions", EmptyString, "u_download")

\* panos_upgrade.py 402 (182-203), main.py 321
Up_Download == HopCall("u_download", "download_software", path[hop], "u_install")

\* panos_upgrade.py 405 (261-284), main.py 325
Up_Install_ThenWaits ==
    HopCall("u_install", "install_software", path[hop], "u_wait")

Up_Install == HopCall("u_install", "install_software", path[hop], "u_reboot")

\* reboot: panos_upgrade.py 408 (319-334), main.py 329.  What the restart
\* commands raise is dropped, and the session is disconnected.
Up_Reboot ==
    /\ run_pc = "u_reboot"
    /\ calls' = Append(calls, Call("reboot", hop, EmptyString))
    /\ IF ~client
       THEN /\ failure' = "reboot"
            /\ error' = NotConnectedError
            /\ run_pc' = "u_except"
            /\ UNCHANGED <<progress, client, live, connected>>
       ELSE /\ progress' = "Rebooting firewall..."
            /\ connected' = AfterDisconnect(connected, client, live)
            /\ client' = FALSE
            /\ live' = FALSE
            /\ run_pc' = "u_wait"
            /\ UNCHANGED <<failure, error>>
    /\ UNCHANGED <<hop, new_version, phase_ok, current_version, plan_pc>>
    /\ UNCHANGED upgradeFrame
    /\ overall' = Sunk({StepProgress(hop, Len(path), 60)}
                        \cup (IF client THEN {Pct(PhaseCallback(current_phase))}
                              ELSE {}))
    /\ UNCHANGED warnings
    /\ UNCHANGED runUntouched

\* wait_for_reboot up to its call of wait_for_ssh: panos_upgrade.py 346-358
Up_WaitForReboot_NoSettle ==
    /\ run_pc = "u_wait"
    /\ calls' = Append(calls, Call("wait_for_reboot", hop, EmptyString))
    /\ progress' = "Waiting for firewall to reboot..."
    /\ ssh_timeout' = RebootTimeout
    /\ ssh_poll_interval' = RebootPollInterval
    /\ ssh_pc' = "call"
    /\ run_pc' = "u_waiting"
    /\ UNCHANGED <<routine, current_phase, step, cancelled, outcome, shown, now>>
    /\ UNCHANGED <<hop, new_version, phase_ok, failure, client, live, connected,
                   current_version, plan_pc>>
    /\ overall' = Sunk({StepProgress(hop, Len(path), 70),
                         Pct(PhaseCallback(current_phase))})
    /\ UNCHANGED <<error, warnings>>
    /\ UNCHANGED runUntouched

Up_WaitForReboot ==
    /\ run_pc = "u_wait"
    /\ calls' = Append(calls, Call("wait_for_reboot", hop, EmptyString))
    /\ progress' = "Waiting for firewall to reboot..."
    /\ now' = now + RebootSettle
    /\ ssh_timeout' = RebootTimeout - RebootSettle
    /\ ssh_poll_interval' = RebootPollInterval
    /\ ssh_pc' = "call"
    /\ run_pc' = "u_waiting"
    /\ UNCHANGED <<routine, current_phase, step, cancelled, outcome, shown>>
    /\ UNCHANGED <<hop, new_version, phase_ok, failure, client, live, connected,
                   current_version, plan_pc>>
    /\ overall' = Sunk({StepProgress(hop, Len(path), 70),
                         Pct(PhaseCallback(current_phase))})
    /\ UNCHANGED <<error, warnings>>
    /\ UNCHANGED runUntouched

\* wait_for_ssh came back: panos_upgrade.py 360-365 and 411-412,
\* main.py 333-334
Up_AfterWait_IgnoresResult ==
    /\ run_pc = "u_waiting"
    /\ ssh_pc \in {"True", "False"}
    /\ progress' = "Firewall is back online"
    /\ run_pc' = "u_reconnect"
    /\ UNCHANGED <<failure, error>>
    /\ UNCHANGED <<hop, new_version, phase_ok, calls, client, live, connected,
                   current_version, plan_pc>>
    /\ UNCHANGED upgradeFrame
    /\ overall' = Sunk({Pct(PhaseCallback(current_phase))})
    /\ UNCHANGED warnings
    /\ UNCHANGED runUntouched

Up_AfterWait ==
    /\ run_pc = "u_waiting"
    /\ ssh_pc \in {"True", "False"}
    /\ IF ssh_pc = "True"
       THEN /\ progress' = "Firewall is back online"
            /\ run_pc' = "u_reconnect"
            /\ UNCHANGED <<failure, error>>
       ELSE /\ progress' = "Timeout waiting for firewall to come back online"
            /\ failure' = "wait_for_reboot"
            /\ error' = DidNotComeBackError(path[hop])
            /\ run_pc' = "u_except"
    /\ UNCHANGED <<hop, new_version, phase_ok, calls, client, live, connected,
                   current_version, plan_pc>>
    /\ UNCHANGED upgradeFrame
    /\ overall' = Sunk({Pct(PhaseCallback(current_phase))})
    /\ UNCHANGED warnings
    /\ UNCHANGED runUntouched

\* self.connect() after the reboot: panos_upgrade.py 415, main.py 337; the
\* loop of _phase4_upgrade ends here
Up_Reconnect ==
    /\ run_pc = "u_reconnect"
    /\ calls' = Append(calls, Call("connect", hop, EmptyString))
    /\ progress' = "Connecting to <host>..."
    /\ client' = TRUE
    /\ \E r \in {NoError} \cup DeviceErrors :
          LET ok == ~r.raised
          IN
          /\ live' = ok
          /\ error' = IF ok THEN error ELSE r
          /\ connected' = IF ok THEN connected + 1 ELSE connected
          /\ failure' = IF ok THEN failure ELSE "connect"
          /\ run_pc' = IF ~ok THEN "u_except"
                       ELSE IF IsRun THEN "u_hop" ELSE "u_verify"
          /\ hop' = IF ok /\ IsRun THEN hop + 1 ELSE hop
    /\ UNCHANGED <<new_version, phase_ok, current_version, plan_pc>>
    /\ UNCHANGED upgradeFrame
    /\ overall' = Sunk({Pct(PhaseCallback(current_phase))})
    /\ UNCHANGED warnings
    /\ UNCHANGED runUntouched

\* str.startswith on decimal numerals: the digits of m begin those of b
RECURSIVE DigitsPrefix(_, _)
DigitsPrefix(m, b) == b = m \/ (b >= 10 /\ DigitsPrefix(m, b \div 10))

\* new_version.startswith(version.rsplit('.', 1)[0]): panos_upgrade.py 419.
\* The prefix is the "major.minor" of the hop's version.
StartsWithMajorMinor(new, version) ==
    /\ new.valid
    /\ new.major = version.major
    /\ DigitsPrefix(version.minor, new.minor)

\* what the device reports after the reboot of a hop: the hop's version,
\* nothing, or the version it had before the upgrade
VerifiedVersions(h) == {path[h], EmptyString, current_version}

\* the version check that ends a hop of upgrade_to_version:
\* panos_upgrade.py 418-420; a mismatch is logged
Up_Verify_FailsOnMismatch ==
    /\ run_pc = "u_verify"
    /\ calls' = Append(calls, Call("get_current_version", hop, EmptyString))
    /\ \E r \in {NoError} \cup DeviceErrors, v \in VerifiedVersions(hop) :
          IF ~r.raised /\ client /\ StartsWithMajorMinor(v, path[hop])
          THEN /\ new_version' = v
               /\ progress' = "Current PAN-OS version: <version>"
               /\ hop' = hop + 1
               /\ run_pc' = "u_hop"
               /\ UNCHANGED <<failure, error>>
          ELSE /\ failure' = "get_current_version"
               /\ error' = IF client THEN r ELSE NotConnectedError
               /\ run_pc' = "u_except"
               /\ UNCHANGED <<new_version, progress, hop>>
    /\ UNCHANGED <<phase_ok, client, live, connected, current_version, plan_pc>>
    /\ UNCHANGED upgradeFrame
    /\ UNCHANGED <<warnings, overall>>
    /\ UNCHANGED runUntouched

Up_Verify ==
    /\ run_pc = "u_verify"
    /\ calls' = Append(calls, Call("get_current_version", hop, EmptyString))
    /\ \E r \in {NoError} \cup DeviceErrors, v \in VerifiedVersions(hop) :
          IF ~r.raised /\ client
          THEN /\ new_version' = v
               /\ progress' = "Current PAN-OS version: <version>"
               /\ warnings' = IF StartsWithMajorMinor(v, path[hop])
                               THEN warnings ELSE warnings + 1
               /\ hop' = hop + 1
               /\ run_pc' = "u_hop"
               /\ UNCHANGED <<failure, error>>
          ELSE /\ failure' = "get_current_version"
               /\ error' = IF client THEN r ELSE NotConnectedError
               /\ run_pc' = "u_except"
               /\ UNCHANGED <<new_version, progress, hop, warnings>>
    /\ UNCHANGED <<phase_ok, client, live, connected, current_version, plan_pc>>
    /\ UNCHANGED upgradeFrame
    /\ UNCHANGED overall
    /\ UNCHANGED runUntouched

\* the end of _phase4_upgrade after the loop: main.py 340-344
Up_Final_ChecksCancelled ==
    /\ run_pc = "u_final"
    /\ calls' = IF check_cancelled(cancelled) THEN calls
                ELSE Append(calls, Call("get_current_version", 0, EmptyString))
    /\ \E r \in {NoError} \cup DeviceErrors, v \in {target_version, EmptyString} :
          IF check_cancelled(cancelled)
          THEN /\ connected' = AfterDisconnect(connected, client, live)
               /\ client' = FALSE
               /\ live' = FALSE
               /\ phase_ok' = FALSE
               /\ run_pc' = "phase_returned"
               /\ UNCHANGED <<new_version, progress, failure, error>>
          ELSE IF ~r.raised /\ client
          THEN /\ new_version' = v
               /\ progress' = "Upgrade complete. Final version: <version>"
               /\ connected' = AfterDisconnect(connected, client, live)
               /\ client' = FALSE
               /\ live' = FALSE
               /\ phase_ok' = TRUE
               /\ run_pc' = "phase_returned"
               /\ UNCHANGED <<failure, error>>
          ELSE /\ failure' = "get_current_version"
               /\ error' = IF client THEN r ELSE NotConnectedError
               /\ run_pc' = "u_except"
               /\ UNCHANGED <<new_version, progress, connected, client, live,
                              phase_ok>>
    /\ UNCHANGED <<hop, current_version, plan_pc>>
    /\ UNCHANGED upgradeFrame
    /\ overall' = IF run_pc' = "phase_returned"
                   THEN Sunk({Pct(PhaseCallback(current_phase)), Pct(100)})
                   ELSE overall
    /\ UNCHANGED warnings
    /\ UNCHANGED runUntouched

Up_Final ==
    /\ run_pc = "u_final"
    /\ calls' = Append(calls, Call("get_current_version", 0, EmptyString))
    /\ \E r \in {NoError} \cup DeviceErrors, v \in {target_version, EmptyString} :
          IF ~r.raised /\ client
          THEN /\ new_version' = v
               /\ progress' = "Upgrade complete. Final version: <version>"
               /\ connected' = AfterDisconnect(connected, client, live)
               /\ client' = FALSE
               /\ live' = FALSE
               /\ phase_ok' = TRUE
               /\ run_pc' = "phase_returned"
               /\ UNCHANGED <<failure, error>>
          ELSE /\ failure' = "get_current_version"
               /\ error' = IF client THEN r ELSE NotConnectedError
               /\ run_pc' = "u_except"
               /\ UNCHANGED <<new_version, progress, connected, client, live,
                              phase_ok>>
    /\ UNCHANGED <<hop, current_version, plan_pc>>
    /\ UNCHANGED upgradeFrame
    /\ overall' = IF run_pc' = "phase_returned"
                   THEN Sunk({Pct(PhaseCallback(current_phase)), Pct(100)})
                   ELSE overall
    /\ UNCHANGED warnings
    /\ UNCHANGED runUntouched

\* the except clause: panos_upgrade.py 425-427 returns False and goes to the
\* finally clause; main.py 346-353 shows the error and returns False
Up_Except_Reraises ==
    /\ run_pc = "u_except"
    /\ outcome' = "raised"
    /\ run_pc' = "done"
    /\ UNCHANGED <<routine, current_phase, step, cancelled, shown, now, ssh_timeout,
                   ssh_poll_interval, ssh_pc, phase_ok>>
    /\ UNCHANGED <<hop, new_version, failure, calls, progress, client, live,
                   connected, current_version, plan_pc>>
    /\ UNCHANGED <<error, warnings, overall>>
    /\ UNCHANGED runUntouched

Up_Except ==
    /\ run_pc = "u_except"
    /\ phase_ok' = FALSE
    /\ IF IsRun
       THEN /\ shown' = Append(shown, PhaseError(current_phase, error))
            /\ run_pc' = "phase_returned"
       ELSE /\ run_pc' = "u_finally"
            /\ UNCHANGED shown
    /\ UNCHANGED <<routine, current_phase, step, cancelled, outcome, now,
                   ssh_timeout, ssh_poll_interval, ssh_pc>>
    /\ UNCHANGED <<hop, new_version, failure, calls, progress, client, live,
                   connected, current_version, plan_pc>>
    /\ UNCHANGED <<error, warnings, overall>>
    /\ UNCHANGED runUntouched

\* the finally clause of upgrade_to_version: panos_upgrade.py 429-430
Up_Finally_OnlyOnSuccess ==
    /\ run_pc = "u_finally"
    /\ IF phase_ok
       THEN /\ connected' = AfterDisconnect(connected, client, live)
            /\ client' = FALSE
            /\ live' = FALSE
       ELSE UNCHANGED <<connected, client, live>>
    /\ outcome' = IF phase_ok THEN "True" ELSE "False"
    /\ run_pc' = "done"
    /\ UNCHANGED <<routine, current_phase, step, cancelled, shown, now,
                   ssh_timeout, ssh_poll_interval, ssh_pc>>
    /\ UNCHANGED <<hop, new_version, phase_ok, failure, calls, progress,
                   current_version, plan_pc>>
    /\ UNCHANGED <<error, warnings, overall>>
    /\ UNCHANGED runUntouched

Up_Finally ==
    /\ run_pc = "u_finally"
    /\ connected' = AfterDisconnect(connected, client, live)
    /\ client' = FALSE
    /\ live' = FALSE
    /\ outcome' = IF phase_ok THEN "True" ELSE "False"
    /\ run_pc' = "done"
    /\ UNCHANGED <<routine, current_phase, step, cancelled, shown, now,
                   ssh_timeout, ssh_poll_interval, ssh_pc>>
    /\ UNCHANGED <<hop, new_version, phase_ok, failure, calls, progress,
                   current_version, plan_pc>>
    /\ UNCHANGED <<error, warnings, overall>>
    /\ UNCHANGED runUntouched

SetupNext ==
    \/ Run_Begin
    \/ Phase_Begin
    \/ Phase2_AfterWait
    \/ Phase_Step
    \/ Phase_Finally
    \/ Run_AfterPhase
    \/ Gui_Cancel
    \/ Up_Connect
    \/ Up_GetCurrentVersion
    \/ Up_AfterPlan
    \/ Up_Hop
    \/ Up_Check
    \/ Up_Download
    \/ Up_Install
    \/ Up_Reboot
    \/ Up_WaitForReboot
    \/ Up_AfterWait
    \/ Up_Reconnect
    \/ Up_Verify
    \/ Up_Final
    \/ Up_Except
    \/ Up_Finally
    \/ PlanNext
    \/ SshNext

\* ------------------------------------------------ properties of the runs
RunEnded == run_pc = "done"

\* the calls that belong to a hop of the upgrade
HopOps ==
    {"check_available_versions", "download_software", "install_software", "reboot",
     "wait_for_reboot"}

\* C17: when a phase method of FirewallSetupOrchestrator has returned, with
\* success, after an exception or after cancellation, no session is
\* connected.
C17_NoSessionAtPhaseBoundary == run_pc = "phase_returned" => connected = 0

\* C18: upgrade_to_version and run end, and only by returning True or
\* False; they return False when a call failed (connect, version read, path
\* planning, check, download, install, reachability wait, reconnect), so
\* they return True only when none did.
C18_NeverRaises ==
    /\ [](RunEnded =>
            /\ outcome \in {"True", "False"}
            /\ failure # "" => outcome = "False"
            /\ outcome = "True" => failure = "")
    /\ [](~RunEnded => outcome = "none")
    /\ <>RunEnded

C18_Witness ==
    /\ IsRun
    /\ RunEnded
    /\ outcome = "False"
    /\ failure = "wait_for_reboot"
    /\ hop = 2

C18_WitnessUpgrader ==
    /\ routine = "upgrade_to_version"
    /\ RunEnded
    /\ outcome = "False"
    /\ failure = "install_software"
    /\ hop = 3

\* C19: once get_upgrade_path has returned an empty path, the routine has
\* made the initial connect and the version read as its last two calls and
\* makes no check, download, install, reboot or reachability wait; it
\* returns True.
C19_EmptyPathShortCircuit ==
    (plan_pc = "returned" /\ path = <<>>) =>
        /\ Len(calls) >= 2
        /\ calls[Len(calls) - 1] = Call("connect", 0, EmptyString)
        /\ calls[Len(calls)] = Call("get_current_version", 0, EmptyString)
        /\ \A i \in 1..Len(calls) : calls[i].op \notin HopOps /\ calls[i].hop = 0
        /\ RunEnded => outcome = "True"

C19_Witness ==
    /\ IsRun
    /\ RunEnded
    /\ plan_pc = "returned"
    /\ path = <<>>
    /\ outcome = "True"
    /\ cancelled

\* the calls of one hop, in the order of the loop body; upgrade_to_version
\* ends the hop with a version read
HopSteps ==
    <<"check_available_versions", "download_software", "install_software", "reboot",
      "wait_for_reboot", "connect">>
    \o (IF IsRun THEN <<>> ELSE <<"get_current_version">>)

IsHopCall(c) == c.hop >= 1

HopTrace == SelectSeq(calls, IsHopCall)

\* C20: the calls of the hops are, in order, those of hop 1, then of hop 2,
\* and so on, each hop being check, download, install, reboot, reachability
\* wait, reconnect (then the version read in upgrade_to_version), download
\* and install being given the hop's version of the path; and the loop goes
\* on to the next hop only from a reconnect that gave a session.
C20_HopOrder ==
    /\ [](\A k \in 1..Len(HopTrace) :
            LET n == Len(HopSteps)
                h == ((k - 1) \div n) + 1
                name == HopSteps[((k - 1) % n) + 1]
            IN  /\ h <= Len(path)
                /\ HopTrace[k] =
                      Call(name, h, IF name \in {"download_software", "install_software"}
                                    THEN path[h] ELSE EmptyString))
    /\ [][hop' # hop =>
            /\ hop' = hop + 1
            /\ live'
            /\ Len(HopTrace') = hop * Len(HopSteps)]_vars

C20_Witness ==
    /\ RunEnded
    /\ outcome = "True"
    /\ Len(path) = 3
    /\ Len(HopTrace) = 3 * Len(HopSteps)

\* C21: when the reachability wait of a hop gives False the routine goes to
\* its except clause with the error that names the hop's version and makes
\* no further call on the device (no reconnect, nothing of a later hop), and
\* it returns False; the reconnect of a hop is made only after the wait of
\* that hop gave True, so a run over a path returns True only after every
\* hop's wait gave True.
C21_WaitFailureAborts ==
    /\ [][(run_pc = "u_waiting" /\ run_pc' # "u_waiting") =>
            IF ssh_pc = "False"
            THEN /\ run_pc' = "u_except"
                 /\ failure' = "wait_for_reboot"
                 /\ error' = DidNotComeBackError(path[hop])
                 /\ calls' = calls
                 /\ hop' = hop
            ELSE /\ ssh_pc = "True"
                 /\ run_pc' = "u_reconnect"]_vars
    /\ [](failure = "wait_for_reboot" =>
            /\ calls[Len(calls)] = Call("wait_for_reboot", hop, EmptyString)
            /\ error = DidNotComeBackError(path[hop])
            /\ outcome # "True"
            /\ RunEnded =>
                  /\ outcome = "False"
                  /\ IsRun => shown = <<PhaseError(3, DidNotComeBackError(path[hop]))>>)
    /\ [][(run_pc' = "u_reconnect" /\ run_pc # "u_reconnect") =>
            run_pc = "u_waiting" /\ ssh_pc = "True"]_vars
    /\ [](outcome = "True" /\ path # <<>> =>
            \A h \in 1..Len(path) :
                \E i \in 1..(Len(calls) - 1) :
                    /\ calls[i] = Call("wait_for_reboot", h, EmptyString)
                    /\ calls[i + 1] = Call("connect", h, EmptyString))

C21_Witness ==
    /\ routine = "upgrade_to_version"
    /\ RunEnded
    /\ outcome = "False"
    /\ failure = "wait_for_reboot"
    /\ hop = 2
    /\ Len(path) = 3
    /\ error = DidNotComeBackError(path[2])

\* the version read that ends a hop of upgrade_to_version came back
VersionRead == run_pc = "u_verify" /\ run_pc' = "u_hop"

\* C22 as stated: a version read after a hop that gives anything but the
\* hop's version logs one warning, and the loop goes on to the next hop
\* without a failure.
C22_AnyDifferenceWarns ==
    [][VersionRead =>
            /\ hop' = hop + 1
            /\ failure' = failure
            /\ warnings' = IF new_version' # path[hop]
                            THEN warnings + 1 ELSE warnings]_vars

\* C22: a version read after a hop that comes back (the read itself did not
\* raise) never fails the upgrade, and the loop goes on to the next hop; it
\* logs one warning exactly when the version read does not begin with the
\* "major.minor" of the hop's version (a version that differs in patch or
\* hotfix only logs nothing); and upgrade_to_version returns True when no
\* call failed, whatever the number of warnings.
C22_MismatchOnlyWarns ==
    /\ [][VersionRead =>
            /\ hop' = hop + 1
            /\ failure' = failure
            /\ error' = error
            /\ warnings' = IF StartsWithMajorMinor(new_version', path[hop])
                            THEN warnings ELSE warnings + 1]_vars
    /\ [][warnings' # warnings => VersionRead]_vars
    /\ [][(run_pc = "u_verify" /\ run_pc' = "u_except") => error'.raised]_vars
    /\ [](RunEnded /\ ~IsRun /\ failure = "" => outcome = "True")

C22_Witness ==
    /\ routine = "upgrade_to_version"
    /\ RunEnded
    /\ outcome = "True"
    /\ Len(path) = 3
    /\ warnings = 2
    /\ new_version = path[3]

\* a version of the hop's "major.minor" and another patch was read, and
\* nothing was logged
C22_WitnessPatchOnly ==
    /\ routine = "upgrade_to_version"
    /\ RunEnded
    /\ outcome = "True"
    /\ Len(path) = 1
    /\ new_version # path[1]
    /\ warnings = 0

\* a phase method returned True and the flag is set: main.py 60, 68, 76
CancelledAtBoundary ==
    /\ IsRun
    /\ run_pc = "phase_returned"
    /\ phase_ok
    /\ current_phase \in 0..2
    /\ cancelled

\* C24: when phase 1, 2 or 3 has returned True and the cancellation flag
\* is set, the next step of run is its return of False: the next phase is
\* not started, no further call is made on the device and no error is
\* shown; and nothing follows the return.
C24_CancelBetweenPhases ==
    /\ [][CancelledAtBoundary =>
            /\ run_pc' = "done"
            /\ outcome' = "False"
            /\ current_phase' = current_phase
            /\ calls' = calls
            /\ shown' = shown]_vars
    /\ [][RunEnded => UNCHANGED <<run_pc, outcome, current_phase, calls>>]_vars

C24_Witness ==
    /\ IsRun
    /\ RunEnded
    /\ outcome = "False"
    /\ failure = ""
    /\ current_phase = 2
    /\ phase_ok
    /\ cancelled
    /\ calls[Len(calls)].op = "install_latest_content"

\* where run is inside a hop of phase 4, after the hop's cancellation check
HopPcs ==
    {"u_check", "u_download", "u_install", "u_reboot", "u_wait", "u_waiting",
     "u_reconnect"}

\* the order of the hop's steps
NextInHop(pc) ==
    CASE pc = "u_check" -> "u_download"
      [] pc = "u_download" -> "u_install"
      [] pc = "u_install" -> "u_reboot"
      [] pc = "u_reboot" -> "u_wait"
      [] pc = "u_wait" -> "u_waiting"
      [] pc = "u_waiting" -> "u_reconnect"
      [] pc = "u_reconnect" -> "u_hop"

\* wait_for_ssh is running
SshRunning == ssh_pc \in {"call", "test", "probe", "connect", "liveness", "sleep"}

\* C25: the user's cancellation changes nothing but the flag; run returns
\* False without a failed call only from a phase boundary or from the head
\* of a hop, with the flag set; inside a hop every step of run goes on to
\* the hop's next step, or to the except clause because that call failed,
\* whether or not the flag is set; and a wait_for_ssh that runs while the
\* flag is set still gives False only when its time is up.
C25_CancelOnlyBetweenSteps ==
    /\ [][cancelled' # cancelled =>
            /\ cancelled'
            /\ UNCHANGED <<run_pc, current_phase, step, hop, phase_ok, outcome,
                           failure, calls, shown, error, live, client, connected>>
            /\ UNCHANGED <<planVars, stageVars, ssh_pc, attempt, result, session,
                           poll_pc, status, now>>]_vars
    /\ [][(IsRun /\ failure' = "" /\ phase_ok' # phase_ok /\ ~phase_ok') =>
            /\ run_pc = "u_hop"
            /\ hop <= Len(path)
            /\ cancelled
            /\ calls' = calls]_vars
    /\ [][(IsRun /\ failure' = "" /\ outcome' # outcome /\ outcome' = "False") =>
            /\ run_pc = "phase_returned"
            /\ cancelled]_vars
    /\ [][(IsRun /\ run_pc \in HopPcs /\ run_pc' # run_pc) =>
            \/ /\ run_pc' = NextInHop(run_pc)
               /\ failure' = ""
               /\ run_pc # "u_waiting" => Len(calls') = Len(calls) + 1
            \/ /\ run_pc' = "u_except"
               /\ failure' # ""
               /\ error'.raised]_vars
    /\ [][(IsRun /\ cancelled /\ SshRunning /\ ssh_pc' = "False") =>
            ~LoopCondition(now, ssh_start_time, ssh_timeout)]_vars

\* the user cancelled while the install of hop 1 ran; hop 1 went on to its
\* reconnect, and the cancellation took effect at the head of hop 2
C25_Witness ==
    /\ IsRun
    /\ RunEnded
    /\ outcome = "False"
    /\ failure = ""
    /\ hop = 2
    /\ cancelled_at >= 1
    /\ calls[cancelled_at] = Call("install_software", 1, path[1])
    /\ calls[Len(calls)] = Call("connect", 1, EmptyString)
    /\ Len(calls) = cancelled_at + 3

\* a phase method is entered
PhaseStarts == run_pc' = "phase_begin" /\ run_pc # "phase_begin"

\* C26: run enters phase 1 first, and a later phase only from the return of
\* True of the phase before it, so the phases start in the order 1, 2, 3,
\* 4; when a phase method has returned False the next step of run is its
\* return of False, with no call made and no phase started after it; and
\* run returns True only when phase 4 has returned True.
C26_PhaseOrder ==
    /\ [][PhaseStarts =>
            \/ /\ run_pc = "run"
               /\ current_phase' = 0
            \/ /\ run_pc = "phase_returned"
               /\ phase_ok
               /\ current_phase' = current_phase + 1
               /\ current_phase' <= 3]_vars
    /\ [][current_phase' # current_phase => PhaseStarts]_vars
    /\ [][(/\ IsRun
            /\ run_pc = "phase_returned"
            /\ ~phase_ok
            /\ cancelled' = cancelled) =>
            /\ run_pc' = "done"
            /\ outcome' = "False"
            /\ current_phase' = current_phase
            /\ calls' = calls]_vars
    /\ [](IsRun /\ outcome = "True" => current_phase = 3 /\ phase_ok)

C26_Witness ==
    /\ IsRun
    /\ RunEnded
    /\ outcome = "False"
    /\ current_phase = 2
    /\ ~phase_ok
    /\ ~cancelled
    /\ failure = "download_latest_content"
    /\ calls[Len(calls)].op = "download_latest_content"

\* the four phases returned True, one after the other
C26_WitnessAllPhases ==
    /\ IsRun
    /\ RunEnded
    /\ outcome = "True"
    /\ current_phase = 3
    /\ Len(path) = 2

\* C27: every value run gives to gui.update_progress lies between 0 and 100
\* inclusive, whatever the length of the path and the hop of phase 4
C27_ProgressInRange == \A q \in overall : InRange(q)

\* the titles the phase methods give to gui.show_error
ErrorTitles == {PhaseTitle(p) : p \in 0..3} \cup {"Connection Failed"}

\* C30: when run returns False because a step of a phase failed, one error
\* has been shown before it returns, with the title of the phase (or
\* "Connection Failed" for the wait of phase 2) and a suggestion that is not
\* empty: the one get_error_suggestion gives for the exception, or the fixed
\* hint of the wait; a run that ends at a cancellation test shows no error;
\* and an error is shown only by a failing step, while run has not returned.
C30_FailureShowsError ==
    /\ [](IsRun /\ RunEnded /\ outcome = "False" =>
            IF failure # ""
            THEN /\ Len(shown) = 1
                 /\ shown[1].title \in ErrorTitles
                 /\ shown[1].hint # ""
                 /\ IF failure = "wait_for_ssh"
                    THEN /\ shown[1].title = "Connection Failed"
                         /\ ~shown[1].error.raised
                    ELSE /\ shown[1].title = PhaseTitle(current_phase)
                         /\ shown[1].error = error
                         /\ error.raised
                         /\ shown[1].hint = get_error_suggestion(error)
            ELSE /\ cancelled
                 /\ shown = <<>>)
    /\ [](IsRun /\ RunEnded /\ outcome = "True" => shown = <<>>)
    /\ [][shown' # shown =>
            /\ failure' # ""
            /\ run_pc' \in {"phase_finally", "phase_returned"}
            /\ ~phase_ok'
            /\ Len(shown') = Len(shown) + 1]_vars

\* a failed licence fetch ended the run with its error shown
C30_Witness ==
    /\ IsRun
    /\ RunEnded
    /\ outcome = "False"
    /\ failure = "fetch_licenses"
    /\ Len(shown) = 1
    /\ shown[1].title = "Licensing Failed"
    /\ shown[1].hint =
          "License operation failed. Ensure the firewall has internet access."

\* the wait of phase 2 gave False
C30_WitnessConnectionFailed ==
    /\ IsRun
    /\ RunEnded
    /\ failure = "wait_for_ssh"
    /\ shown = <<ConnectionFailed>>

\* a run ended by a cancellation inside phase 4 with nothing shown
C30_WitnessCancelled ==
    /\ IsRun
    /\ RunEnded
    /\ outcome = "False"
    /\ failure = ""
    /\ cancelled
    /\ current_phase = 3
    /\ hop = 2
    /\ shown = <<>>

\* the wait of a hop is running: wait_for_reboot has been called and has
\* not returned
InWaitForReboot == run_pc = "u_waiting"

\* C32: wait_for_reboot sleeps the settle delay before it calls
\* wait_for_ssh, and makes no probe in doing so; wait_for_ssh starts its
\* clock at that call, with a budget of the timeout less the settle delay,
\* and every probe of the wait is made at or after that start, in an
\* iteration that began within the budget; time never goes back; and the
\* wait gives True exactly when wait_for_ssh gave True.
C32_SettleThenProbe ==
    /\ [][(run_pc = "u_wait" /\ run_pc' # run_pc) =>
            /\ InWaitForReboot'
            /\ now' = now + RebootSettle
            /\ ssh_timeout' = RebootTimeout - RebootSettle
            /\ ssh_poll_interval' = RebootPollInterval
            /\ ssh_pc' = "call"
            /\ attempt' = attempt
            /\ result' = result
            /\ connected' = connected]_vars
    /\ [][(InWaitForReboot /\ ssh_pc = "call" /\ ssh_pc' # ssh_pc) =>
            /\ ssh_start_time' = now
            /\ attempt' = 0
            /\ ssh_pc' = "test"]_vars
    /\ [][(InWaitForReboot /\ (result' # result \/ attempt' > attempt)) =>
            /\ ssh_pc \in {"test", "probe"}
            /\ now >= ssh_start_time
            /\ ssh_start_time >= RebootSettle
            /\ now - ssh_start_time < RebootTimeout - RebootSettle]_vars
    /\ [](InWaitForReboot /\ ssh_pc \notin {"call"} =>
            ssh_timeout = RebootTimeout - RebootSettle)
    /\ [][now' >= now]_vars
    /\ [][(InWaitForReboot /\ run_pc' # run_pc) =>
            /\ ssh_pc \in {"True", "False"}
            /\ (ssh_pc = "True") <=> (run_pc' = "u_reconnect")
            /\ (ssh_pc = "False") <=> (run_pc' = "u_except")]_vars

\* the wait of a hop gave True on its second probe
C32_Witness ==
    /\ InWaitForReboot
    /\ ssh_pc = "True"
    /\ attempt = 2
    /\ ssh_start_time >= RebootSettle
    /\ now >= ssh_start_time + RebootPollInterval

\* the budget ran out
C32_WitnessTimeout ==
    /\ InWaitForReboot
    /\ ssh_pc = "False"
    /\ attempt >= 1
    /\ now - ssh_start_time >= RebootTimeout - RebootSettle

\* C33: upgrade_to_version returns only through its finally clause, which
\* disconnects: whatever the exit (the empty path, the end of the loop, a
\* call that raised, the first connect included, a wait that gave False),
\* the upgrader holds no client and no connection of its own when the
\* call has returned.
C33_DisconnectOnEveryExit ==
    /\ [][(~IsRun /\ run_pc' = "done" /\ run_pc # "done") =>
            /\ run_pc = "u_finally"
            /\ connected' = AfterDisconnect(connected, client, live)
            /\ ~client'
            /\ ~live']_vars
    /\ [](~IsRun /\ RunEnded => ~client /\ ~live)
    /\ [][(~IsRun /\ RunEnded) => (client' = client /\ live' = live)]_vars

\* the first connect raised
C33_Witness ==
    /\ ~IsRun
    /\ RunEnded
    /\ outcome = "False"
    /\ failure = "connect"
    /\ Len(calls) = 1
    /\ ~client

\* already at the target
C33_WitnessEmptyPath ==
    /\ ~IsRun
    /\ RunEnded
    /\ outcome = "True"
    /\ path = <<>>
    /\ ~client

\* a download raised with the session connected
C33_WitnessFailure ==
    /\ ~IsRun
    /\ RunEnded
    /\ failure = "download_software"
    /\ ~client
    /\ connected = 0

\* get_upgrade_path was called with a text read from the device that
\* Version.parse rejects
UnparseableRead == plan_pc # "idle" /\ ~Version_parse_ok(current_version)

\* C37: when the text that get_current_version read from the device at the
\* start of the upgrade is empty or not a version, the connect and that one
\* read are the only calls made, then and ever after (no second read, no
\* check, download, install, reboot or reachability wait), the planner
\* raises ValueError, and the routine ends by returning False.
C37_UnparseableVersionIsFatal ==
    /\ [](UnparseableRead =>
            /\ Len(calls) >= 2
            /\ calls[Len(calls) - 1] = Call("connect", 0, EmptyString)
            /\ calls[Len(calls)] = Call("get_current_version", 0, EmptyString)
            /\ \A i \in 1..Len(calls) :
                  /\ calls[i].op \notin HopOps
                  /\ calls[i].op = "get_current_version" => i = Len(calls)
            /\ plan_pc \in {"call", "ValueError"}
            /\ path = <<>>
            /\ RunEnded => outcome = "False" /\ failure = "get_upgrade_path")
    /\ [][UnparseableRead => UnparseableRead' /\ calls' = calls]_vars
    /\ (UnparseableRead ~> (RunEnded /\ UnparseableRead /\ outcome = "False"))

C37_Witness ==
    /\ routine = "upgrade_to_version"
    /\ RunEnded
    /\ UnparseableRead
    /\ outcome = "False"
    /\ error = InvalidVersionError

C37_WitnessRun ==
    /\ IsRun
    /\ RunEnded
    /\ UnparseableRead
    /\ outcome = "False"
    /\ shown = <<PhaseError(3, InvalidVersionError)>>

\* run is in phase 4 and no cancellation check of the hop loop is left: the
\* path is planned and empty, or the last hop is past its check, or the loop
\* is over
PastLastCheck ==
    /\ IsRun
    /\ current_phase = 3
    /\ plan_pc = "returned"
    /\ \/ hop > Len(path)
       \/ hop = Len(path) /\ run_pc \in HopPcs

\* C39: once phase 4 is past the cancellation check of its last hop, or has
\* planned an empty path, no step of run looks at the cancellation flag:
\* the phase does not return False unless a call failed, run ends, and
\* when no call failed it returns True, with the flag set or not.
C39_NoCheckAfterLastHop ==
    /\ [][(PastLastCheck /\ failure' = "") =>
            /\ ~(run_pc' = "phase_returned" /\ ~phase_ok')
            /\ outcome' \in {"none", "True"}]_vars
    /\ []((PastLastCheck /\ RunEnded /\ failure = "") => outcome = "True")
    /\ (PastLastCheck ~> RunEnded)

\* the user cancelled while the download of the last of two hops ran, and
\* run returned True
C39_Witness ==
    /\ IsRun
    /\ RunEnded
    /\ outcome = "True"
    /\ cancelled
    /\ Len(path) = 2
    /\ cancelled_at >= 1
    /\ calls[cancelled_at] = Call("check_available_versions", 2, EmptyString)
    /\ progress = "Setup complete!"

\* the user cancelled in phase 4 while the version was read, the path was
\* empty, and run returned True
C39_WitnessEmptyPath ==
    /\ IsRun
    /\ RunEnded
    /\ outcome = "True"
    /\ cancelled
    /\ path = <<>>
    /\ cancelled_at = Len(calls) - 1
    /\ calls[cancelled_at] = Call("connect", 0, EmptyString)

\* ---------------------------------------------- fetch_and_verify_licenses
\* the greatest max_retries the function is called with (3 is the default)
MaxRetries == 3

\* the values of retry_delay: the one of the tests and the default
RetryDelays == {1, 30}

\* an exception that leaves the function: one that passed through it, or
\* RuntimeError("License fetch failed after <n> attempts: <e>")
Propagated(e) == [failed_after |-> FALSE, attempts |-> 0, error |-> e]

FailedAfter(n, e) == [failed_after |-> TRUE, attempts |-> n, error |-> e]

NothingRaised == Propagated(NoError)

\* a call of time.sleep: the attempt it follows and the seconds
Sleep(after, seconds) == [after |-> after, seconds |-> seconds]

\* state the function leaves alone
licFrame ==
    <<planVars, stageVars, runVars, ssh_timeout, ssh_poll_interval, ssh_start_time,
      attempt, result, session, ssh_pc, job, timeout, now, start_time, status,
      n_sleeps, n_polls, poll_pc, entry, max_retries, retry_delay, workerVars,
      cfgVars>>

\* the functions that connect, do one job and disconnect
EntryPoints ==
    {"configure_firewall", "update_firewall_content", "fetch_and_verify_licenses"}

\* licensing.py 129-145, firewall_config.py 215-226, content_update.py
\* 227-240: the client, connect, the manager, last_error
Lic_Call ==
    /\ lic_pc = "call"
    /\ progress' = "Connecting to <host>..."
    /\ client' = TRUE
    /\ last_error' = NoError
    /\ \E r \in {NoError} \cup DeviceErrors :
          IF r.raised
          THEN /\ lic_error' = Propagated(r)
               /\ lic_pc' = "finally"
               /\ UNCHANGED connected
          ELSE /\ connected' = connected + 1
               /\ lic_pc' = IF entry = "fetch_and_verify_licenses"
                            THEN "loop" ELSE "work"
               /\ UNCHANGED lic_error
    /\ UNCHANGED <<lic_attempt, tried, slept, disconnects>>
    /\ UNCHANGED queries
    /\ UNCHANGED licFrame

\* licensing.py 146: for attempt in range(1, max_retries + 1)
Lic_Loop ==
    /\ lic_pc = "loop"
    /\ IF lic_attempt < max_retries
       THEN /\ lic_attempt' = lic_attempt + 1
            /\ lic_pc' = "attempt"
       ELSE /\ lic_pc' = "exhausted"
            /\ UNCHANGED lic_attempt
    /\ UNCHANGED <<client, connected, progress, last_error, tried, slept,
                   lic_error>>
    /\ UNCHANGED disconnects
    /\ UNCHANGED queries
    /\ UNCHANGED licFrame

\* a call of get_license_info: the attempt that makes it, what the command
\* raised, and whether the text it gave names an active licence
Query(k, q, active) ==
    [attempt |-> k, error |-> q, active |-> ~q.raised /\ active]

\* what the try block of an attempt raises: licensing.py 147-156.  f is
\* what fetch_licenses raised, q what the query of verify_licenses_active
\* raised, active what verify_licenses_active gives.
AttemptResult_RequiresActive(f, q, active) ==
    IF f.raised THEN f
    ELSE IF q.raised THEN q
    ELSE IF active THEN NoError
    ELSE Error({"license"}, EmptyString)

AttemptResult(f, q, active) == IF f.raised THEN f ELSE q

\* the body of the loop, licensing.py 147-165: fetch_licenses and
\* verify_licenses_active return, or one of them raises and the except
\* clause keeps the error and sleeps
Lic_Attempt_SleepsAfterLast ==
    /\ lic_pc = "attempt"
    /\ \E f \in {NoError} \cup DeviceErrors, q \in {NoError} \cup DeviceErrors,
          active \in BOOLEAN :
          LET r == AttemptResult(f, q, active)
          IN
          /\ tried' = Append(tried, r)
          /\ queries' = IF f.raised THEN queries
                        ELSE Append(queries, Query(lic_attempt, q, active))
          /\ IF r.raised
             THEN /\ last_error' = r
                  /\ progress' = "Retrying in <retry_delay> seconds..."
                  /\ slept' = Append(slept, Sleep(lic_attempt, retry_delay))
                  /\ lic_pc' = "loop"
             ELSE /\ progress' = IF active
                                 THEN "Licenses verified as active"
                                 ELSE "Warning: Could not verify license activation"
                  /\ lic_pc' = "finally"
                  /\ UNCHANGED <<last_error, slept>>
    /\ UNCHANGED <<client, connected, lic_attempt, lic_error>>
    /\ UNCHANGED disconnects
    /\ UNCHANGED licFrame

Lic_Attempt ==
    /\ lic_pc = "attempt"
    /\ \E f \in {NoError} \cup DeviceErrors, q \in {NoError} \cup DeviceErrors,
          active \in BOOLEAN :
          LET r == AttemptResult(f, q, active)
          IN
          /\ tried' = Append(tried, r)
          /\ queries' = IF f.raised THEN queries
                        ELSE Append(queries, Query(lic_attempt, q, active))
          /\ IF r.raised
             THEN /\ last_error' = r
                  /\ IF lic_attempt < max_retries
                     THEN /\ progress' = "Retrying in <retry_delay> seconds..."
                          /\ slept' = Append(slept, Sleep(lic_attempt, retry_delay))
                     ELSE UNCHANGED <<progress, slept>>
                  /\ lic_pc' = "loop"
             ELSE /\ progress' = IF active
                                 THEN "Licenses verified as active"
                                 ELSE "Warning: Could not verify license activation"
                  /\ lic_pc' = "finally"
                  /\ UNCHANGED <<last_error, slept>>
    /\ UNCHANGED <<client, connected, lic_attempt, lic_error>>
    /\ UNCHANGED disconnects
    /\ UNCHANGED licFrame

\* licensing.py 167-168: all retries exhausted
Lic_Exhausted ==
    /\ lic_pc = "exhausted"
    /\ lic_error' = FailedAfter(max_retries, last_error)
    /\ lic_pc' = "finally"
    /\ UNCHANGED <<client, connected, progress, lic_attempt, last_error, tried,
                   slept>>
    /\ UNCHANGED disconnects
    /\ UNCHANGED queries
    /\ UNCHANGED licFrame

\* licensing.py 170-172, firewall_config.py 238-240, content_update.py
\* 245-247: the finally clause, then the return or the raise
Lic_Finally_OnlyOnReturn ==
    /\ lic_pc = "finally"
    /\ IF lic_error = NothingRaised
       THEN /\ disconnects' = IF client THEN disconnects + 1 ELSE disconnects
            /\ connected' = IF client /\ connected > 0
                            THEN connected - 1 ELSE connected
       ELSE UNCHANGED <<disconnects, connected>>
    /\ lic_pc' = IF lic_error = NothingRaised THEN "True" ELSE "raised"
    /\ UNCHANGED <<client, progress, lic_attempt, last_error, tried, slept,
                   lic_error>>
    /\ UNCHANGED queries
    /\ UNCHANGED licFrame

Lic_Finally ==
    /\ lic_pc = "finally"
    /\ disconnects' = IF client THEN disconnects + 1 ELSE disconnects
    /\ connected' = IF client /\ connected > 0 THEN connected - 1 ELSE connected
    /\ lic_pc' = IF lic_error = NothingRaised THEN "True" ELSE "raised"
    /\ UNCHANGED <<client, progress, lic_attempt, last_error, tried, slept,
                   lic_error>>
    /\ UNCHANGED queries
    /\ UNCHANGED licFrame

LicNext ==
    \/ Lic_Call
    \/ Lic_Loop
    \/ Lic_Attempt
    \/ Lic_Exhausted
    \/ Lic_Finally

\* perform_initial_setup or update_content returns or raises:
\* firewall_config.py 228-236, content_update.py 242-243
Entry_Work ==
    /\ lic_pc = "work"
    /\ progress' = IF entry = "configure_firewall"
                   THEN "Starting initial configuration..."
                   ELSE "Starting content update..."
    /\ \E r \in {NoError} \cup DeviceErrors :
          lic_error' = IF r.raised THEN Propagated(r) ELSE lic_error
    /\ lic_pc' = "finally"
    /\ UNCHANGED <<client, connected, lic_attempt, last_error, tried, slept,
                   disconnects>>
    /\ UNCHANGED queries
    /\ UNCHANGED licFrame

EntryNext == LicNext \/ Entry_Work

\* ------------------------------- fetch_and_verify_licenses properties
\* the attempts so far that raised
FailedAttempts == {k \in 1..Len(tried) : tried[k].raised}

LicEnded == lic_pc \in {"True", "raised"}

\* C28: at most max_retries attempts are made; an attempt is made only
\* after every earlier one raised, so the first attempt that does not raise
\* is the last and the function returns True; time.sleep is called with
\* retry_delay once after each failed attempt but the max_retries-th, and
\* before the next attempt; and when max_retries attempts raised the
\* function raises "failed after max_retries attempts" with the error of
\* the last attempt, which is the only way it raises once connected.
C28_RetryPolicy ==
    /\ [](Len(tried) <= max_retries /\ Len(tried) = lic_attempt -
            (IF lic_pc = "attempt" THEN 1 ELSE 0))
    /\ [](\A k \in 1..Len(tried) : k < Len(tried) => tried[k].raised)
    /\ [](lic_pc = "True" => Len(tried) >= 1 /\ ~tried[Len(tried)].raised)
    /\ [](lic_pc \in {"loop", "exhausted", "finally", "True", "raised"} =>
            /\ Len(slept) = Cardinality(FailedAttempts \ {max_retries})
            /\ \A i \in 1..Len(slept) : slept[i] = Sleep(i, retry_delay))
    /\ [][Len(tried') > Len(tried) => Len(slept) = Len(tried)]_vars
    /\ [](lic_pc = "raised" /\ lic_error.failed_after =>
            /\ Len(tried) = max_retries
            /\ FailedAttempts = 1..max_retries
            /\ lic_error.attempts = max_retries
            /\ lic_error.error =
                  (IF max_retries = 0 THEN NoError ELSE tried[max_retries])
            /\ Len(slept) = (IF max_retries = 0 THEN 0 ELSE max_retries - 1))
    /\ [](lic_pc = "raised" /\ ~lic_error.failed_after => tried = <<>>)
    /\ [](LicEnded /\ Len(tried) = max_retries /\
            FailedAttempts = 1..max_retries /\ tried # <<>> =>
               lic_pc = "raised" /\ lic_error.failed_after)

\* three attempts raised, with two sleeps between them
C28_Witness ==
    /\ lic_pc = "raised"
    /\ max_retries = 3
    /\ lic_error = FailedAfter(3, Error({"license"}, EmptyString))
    /\ tried[2] = Error({"timed out"}, EmptyString)
    /\ slept = <<Sleep(1, retry_delay), Sleep(2, retry_delay)>>

\* the second of three attempts succeeded after one sleep
C28_WitnessRetrySuccess ==
    /\ lic_pc = "True"
    /\ max_retries = 3
    /\ Len(tried) = 2
    /\ slept = <<Sleep(1, retry_delay)>>

\* C35: an attempt whose fetch and whose licence query both came back
\* without an exception ends the function with True, whether the query
\* showed an active licence or not; a query that raised makes its attempt a
\* failed one, whose error is kept as last_error, and while attempts remain
\* the loop goes on to the next attempt, which fetches again.
C35_TrueWithoutVerification ==
    /\ [][Len(queries') > Len(queries) =>
            LET q == queries'[Len(queries')]
            IN  /\ Len(queries') = Len(queries) + 1
                /\ q.attempt = lic_attempt
                /\ Len(tried') = lic_attempt
                /\ tried'[lic_attempt] = q.error
                /\ IF q.error.raised
                   THEN /\ last_error' = q.error
                        /\ lic_pc' = "loop"
                   ELSE /\ lic_pc' = "finally"
                        /\ lic_error' = NothingRaised]_vars
    /\ [](LicEnded /\ queries # <<>> /\ ~queries[Len(queries)].error.raised =>
            lic_pc = "True")
    /\ [](lic_pc = "True" =>
            /\ queries # <<>>
            /\ ~queries[Len(queries)].error.raised
            /\ queries[Len(queries)].attempt = Len(tried))
    /\ [](LicEnded =>
            \A i \in 1..Len(queries) :
                (queries[i].error.raised /\ queries[i].attempt < max_retries) =>
                    Len(tried) > queries[i].attempt)

\* True although the licences were not seen active
C35_Witness ==
    /\ lic_pc = "True"
    /\ Len(queries) = 1
    /\ ~queries[1].active
    /\ progress = "Warning: Could not verify license activation"

\* the query of the first attempt raised and the second attempt fetched
\* again and gave True
C35_WitnessQueryRaised ==
    /\ lic_pc = "True"
    /\ Len(queries) = 2
    /\ queries[1].error.raised
    /\ queries[1].attempt = 1
    /\ queries[2].attempt = 2
    /\ Len(slept) = 1

\* C34: each of the three functions calls disconnect on its client once,
\* in its finally clause, on every exit: after a return, after connect
\* raised, after the job raised and after the licence retries ran out; no
\* session stays connected; and what was raised leaves the function.
C34_EntryPointsDisconnect ==
    /\ [](LicEnded => disconnects = 1 /\ connected = 0)
    /\ [][disconnects' # disconnects =>
            /\ lic_pc = "finally"
            /\ LicEnded'
            /\ disconnects' = disconnects + 1]_vars
    /\ [](lic_pc = "True" => lic_error = NothingRaised)
    /\ [](lic_pc = "raised" =>
            /\ lic_error.error.raised \/ lic_error.failed_after
            /\ lic_error.failed_after =>
                  entry = "fetch_and_verify_licenses" /\ lic_error.error = last_error)
    /\ [][lic_error # NothingRaised => lic_error' = lic_error]_vars
    /\ [][lic_error' # lic_error => lic_pc' = "finally"]_vars

\* connect raised in configure_firewall
C34_Witness ==
    /\ entry = "configure_firewall"
    /\ lic_pc = "raised"
    /\ progress = "Connecting to <host>..."
    /\ lic_error = Propagated(Error({"timed out"}, EmptyString))
    /\ disconnects = 1

\* update_content raised
C34_WitnessJobRaised ==
    /\ entry = "update_firewall_content"
    /\ lic_pc = "raised"
    /\ progress = "Starting content update..."
    /\ disconnects = 1

\* the licence retries ran out
C34_WitnessExhausted ==
    /\ entry = "fetch_and_verify_licenses"
    /\ lic_pc = "raised"
    /\ lic_error.failed_after
    /\ max_retries = 2
    /\ disconnects = 1

\* ------------------------------------------------ run_setup and its worker
\* how many runs are started one after the other
MaxRuns == 4

\* what orchestrator.run() gives: a boolean, or an exception
RunResults == {"True", "False", "raised"}

\* a call of gui.complete(success) by the worker of run n
Complete(n, b) == [run |-> n, success |-> b]

workerFrame ==
    <<planVars, pollVars, stageVars, sshVars, runVars, licVars, cfgVars>>

\* the OK button while no run is going on: gui.py 278-326, main.py 356-380
\* (the thread is started)
Gui_OnOk ==
    /\ ~running
    /\ started < MaxRuns
    /\ running' = TRUE
    /\ started' = started + 1
    /\ worker_pc' = "run"
    /\ UNCHANGED <<success, results, completed, infos, worker_errors>>
    /\ UNCHANGED workerFrame

\* main.py 360-361: the orchestrator runs
Worker_Run ==
    /\ worker_pc = "run"
    /\ \E res \in RunResults :
          /\ results' = Append(results, res)
          /\ IF res = "raised"
             THEN /\ worker_pc' = "except"
                  /\ UNCHANGED success
             ELSE /\ worker_pc' = "returned"
                  /\ success' = (res = "True")
    /\ UNCHANGED <<running, started, completed, infos, worker_errors>>
    /\ UNCHANGED workerFrame

\* main.py 363-371 and gui.py 393-395: the notification of a success, then
\* gui.complete(success)
Worker_AfterRun_AlwaysNotifies ==
    /\ worker_pc = "returned"
    /\ infos' = Append(infos, started)
    /\ completed' = Append(completed, Complete(started, success))
    /\ running' = FALSE
    /\ worker_pc' = "done"
    /\ UNCHANGED <<started, success, results, worker_errors>>
    /\ UNCHANGED workerFrame

Worker_AfterRun ==
    /\ worker_pc = "returned"
    /\ infos' = IF success THEN Append(infos, started) ELSE infos
    /\ completed' = Append(completed, Complete(started, success))
    /\ running' = FALSE
    /\ worker_pc' = "done"
    /\ UNCHANGED <<started, success, results, worker_errors>>
    /\ UNCHANGED workerFrame

\* main.py 373-377 and gui.py 393-395: the except clause
Worker_Except ==
    /\ worker_pc = "except"
    /\ worker_errors' = Append(worker_errors, started)
    /\ completed' = Append(completed, Complete(started, FALSE))
    /\ running' = FALSE
    /\ worker_pc' = "done"
    /\ UNCHANGED <<started, success, results, infos>>
    /\ UNCHANGED workerFrame

WorkerNext ==
    \/ Gui_OnOk
    \/ Worker_Run
    \/ Worker_AfterRun
    \/ Worker_Except

\* the runs whose orchestrator gave True
SucceededRuns == {k \in 1..Len(results) : results[k] = "True"}

RECURSIVE Ascending(_, _)
\* the members of a set of run numbers up to n, in order
Ascending(S, n) ==
    IF n = 0 THEN <<>>
    ELSE IF n \in S THEN Append(Ascending(S, n - 1), n) ELSE Ascending(S, n - 1)

\* C36: the worker of each run calls gui.complete once, as the last thing
\* it does, with True when orchestrator.run() gave True and with False when
\* it gave False or raised; gui.show_info is called by the runs whose
\* orchestrator gave True and by no other, before gui.complete; and a run
\* whose orchestrator raised shows an error.
C36_CompleteOnce ==
    /\ [](/\ Len(completed) = (IF running THEN started - 1 ELSE started)
          /\ \A k \in 1..Len(completed) :
                completed[k] = Complete(k, results[k] = "True"))
    /\ [][completed' # completed =>
            /\ Len(completed') = Len(completed) + 1
            /\ worker_pc' = "done"
            /\ ~running'
            /\ Len(results) = started]_vars
    /\ [](~running => infos = Ascending(SucceededRuns, started))
    /\ [][infos' # infos =>
            /\ results[started] = "True"
            /\ completed'[started] = Complete(started, TRUE)]_vars
    /\ [](~running =>
            worker_errors =
                Ascending({k \in 1..Len(results) : results[k] = "raised"}, started))

\* three runs: one succeeded, one failed, one raised
C36_Witness ==
    /\ ~running
    /\ started = 3
    /\ results = <<"True", "False", "raised">>
    /\ completed = <<Complete(1, TRUE), Complete(2, FALSE), Complete(3, FALSE)>>
    /\ infos = <<1>>
    /\ worker_errors = <<3>>

\* ---------------------------------------------------- FirewallConfigurator
(***************************************************************************)
(* What a command gives is a text, the set of the words the operations     *)
(* look for in its lower-case form, or an exception.                       *)
(***************************************************************************)
Operations == <<"set_management_ip", "set_dns_servers", "change_admin_password">>

Routines ==
    {"set_management_ip", "set_dns_servers", "change_admin_password",
     "perform_initial_setup"}

ConfigOutputs == { Returns(t) : t \in SUBSET {"error", "invalid"} } \cup {Raises}

\* what "configure" and "exit" give; the operations do not look at the text
ModeOutputs == {Returns({}), Returns({"error"}), Raises}

\* client.commit: ssh_client.py 194-207 raises on "failed"
CommitOutputs == {Returns({"success"}), Returns({}), Returns({"failed"}), Raises}

\* the lines an operation sends between "configure" and "exit":
\* firewall_config.py 48-52, 79 and 86-87, 110-118
Commands(o, secondary) ==
    CASE o = "set_management_ip" -> <<"set", "set", "set">>
      [] o = "set_dns_servers" -> IF secondary THEN <<"set", "set">> ELSE <<"set">>
      [] o = "change_admin_password" -> <<"set", "password", "password">>

\* the test an operation makes on the output of its k-th line:
\* firewall_config.py 57-58, 82-83, 90-91, 120-121
Rejected_OnlyOnError(o, k, text) ==
    IF o = "change_admin_password" THEN k = 3 /\ "error" \in text
    ELSE "error" \in text

Rejected(o, k, text) ==
    IF o = "change_admin_password" THEN k = 3 /\ "error" \in text
    ELSE "error" \in text \/ "invalid" \in text

\* a line sent to the client by an operation, and what came back
Sent(o, what, out) == [op |-> o, what |-> what, out |-> out]

cfgFrame == <<planVars, pollVars, stageVars, sshVars, runVars, licVars, workerVars>>

\* the method is called: firewall_config.py 41, 73, 103, 168-171
Cfg_Call ==
    /\ cfg_pc = "call"
    /\ cfg_op' = IF cfg_routine = "perform_initial_setup"
                 THEN Operations[1] ELSE cfg_routine
    /\ cfg_pc' = "enter"
    /\ UNCHANGED <<cfg_routine, secondary_dns, cfg_k, cfg_failed, cfg_sent>>
    /\ UNCHANGED cfgFrame

\* self.client.enter_configure_mode(), before the try statement:
\* firewall_config.py 44, 75, 105
Cfg_Enter ==
    /\ cfg_pc = "enter"
    /\ \E r \in ModeOutputs :
          /\ cfg_sent' = Append(cfg_sent, Sent(cfg_op, "configure", r))
          /\ cfg_pc' = IF r.raised THEN "raised" ELSE "body"
    /\ cfg_k' = 1
    /\ cfg_failed' = FALSE
    /\ UNCHANGED <<cfg_routine, secondary_dns, cfg_op>>
    /\ UNCHANGED cfgFrame

\* one send_command_timing of the try block and the test of its output:
\* firewall_config.py 46-60, 77-94, 107-123
Cfg_Send ==
    /\ cfg_pc = "body"
    /\ \E r \in ConfigOutputs :
          LET lines == Commands(cfg_op, secondary_dns)
              raise == r.raised \/ Rejected(cfg_op, cfg_k, r.text)
          IN
          /\ cfg_sent' = Append(cfg_sent, Sent(cfg_op, lines[cfg_k], r))
          /\ cfg_failed' = raise
          /\ cfg_pc' = IF raise \/ cfg_k = Len(lines) THEN "finally" ELSE "body"
          /\ cfg_k' = IF raise \/ cfg_k = Len(lines) THEN cfg_k ELSE cfg_k + 1
    /\ UNCHANGED <<cfg_routine, secondary_dns, cfg_op>>
    /\ UNCHANGED cfgFrame

\* which operation perform_initial_setup calls next: firewall_config.py 171-179
AfterOperation(o) ==
    CASE o = "set_management_ip" -> "set_dns_servers"
      [] o = "set_dns_servers" -> "change_admin_password"
      [] o = "change_admin_password" -> "commit_configuration"

\* the finally clause: firewall_config.py 62-63, 96-97, 125-126
Cfg_Finally ==
    /\ cfg_pc = "finally"
    /\ \E r \in ModeOutputs :
          /\ cfg_sent' = Append(cfg_sent, Sent(cfg_op, "exit", r))
          /\ IF cfg_failed \/ r.raised
             THEN /\ cfg_pc' = "raised"
                  /\ UNCHANGED cfg_op
             ELSE IF cfg_routine = "perform_initial_setup"
             THEN /\ cfg_op' = AfterOperation(cfg_op)
                  /\ cfg_pc' = IF cfg_op' = "commit_configuration"
                               THEN "commit" ELSE "enter"
             ELSE /\ cfg_pc' = "returned"
                  /\ UNCHANGED cfg_op
    /\ UNCHANGED <<cfg_routine, secondary_dns, cfg_k, cfg_failed>>
    /\ UNCHANGED cfgFrame

\* commit_configuration: firewall_config.py 128-143, 182-185
Cfg_Commit ==
    /\ cfg_pc = "commit"
    /\ \E r \in CommitOutputs :
          /\ cfg_sent' = Append(cfg_sent, Sent(cfg_op, "commit", r))
          /\ cfg_pc' = IF r.raised \/ "failed" \in r.text THEN "raised" ELSE "returned"
    /\ UNCHANGED <<cfg_routine, secondary_dns, cfg_op, cfg_k, cfg_failed>>
    /\ UNCHANGED cfgFrame

CfgNext ==
    \/ Cfg_Call
    \/ Cfg_Enter
    \/ Cfg_Send
    \/ Cfg_Finally
    \/ Cfg_Commit

\* ------------------------------------------ FirewallConfigurator properties
CfgEnded == cfg_pc \in {"returned", "raised"}

\* what an operation sent, in order
SentBy(o) == SelectSeq(cfg_sent, LAMBDA c : c.op = o)

\* how many lines of a kind a log holds
CountOf(log, what) == Cardinality({i \in 1..Len(log) : log[i].what = what})

\* the operation is over
OperationEnded(o) == SentBy(o) # <<>> /\ (CfgEnded \/ cfg_op # o)

\* the device complained about a line
Complained(out) == ~out.raised /\ ("error" \in out.text \/ "invalid" \in out.text)

\* C40 as stated: every operation that is over, by returning or by
\* raising, has sent "configure" once and "exit" exactly once.
C40_EnterOnceExitOnce ==
    \A k \in 1..Len(Operations) :
        OperationEnded(Operations[k]) =>
            /\ CountOf(SentBy(Operations[k]), "configure") = 1
            /\ CountOf(SentBy(Operations[k]), "exit") = 1

\* the operation returned: it sent "configure", every line of its body and
\* "exit", none raised, and none failed the operation's test
Succeeded(o) ==
    LET log == SentBy(o)
        lines == Commands(o, secondary_dns)
    IN  /\ Len(log) = Len(lines) + 2
        /\ log[1].what = "configure"
        /\ log[Len(log)].what = "exit"
        /\ \A i \in 1..Len(log) : ~log[i].out.raised
        /\ \A i \in 1..Len(lines) :
              /\ log[i + 1].what = lines[i]
              /\ ~Rejected(o, i, log[i + 1].out.text)

\* C40: each operation sends "configure" once, as its first line, and
\* nothing more when that raised: it then raises without an "exit".  When
\* "configure" returned, the operation sends "exit" exactly once, as its
\* last line, before it returns or raises, also after a line that raised
\* or that the device complained about; after a set command that the
\* device complained about or that raised, no further set command of the
\* operation is sent; and perform_initial_setup sends commit once, as its
\* last line, after all three operations returned.
C40_ExitOnceAfterEntering ==
    /\ \A k \in 1..Len(Operations) :
          LET o == Operations[k]
              log == SentBy(o)
          IN  log # <<>> =>
                /\ log[1].what = "configure"
                /\ CountOf(log, "configure") = 1
                /\ log[1].out.raised => (Len(log) = 1 /\ cfg_pc = "raised")
                /\ \A i \in 1..Len(log) : log[i].what = "exit" => i = Len(log)
                /\ (OperationEnded(o) /\ ~log[1].out.raised) =>
                      /\ log[Len(log)].what = "exit"
                      /\ CountOf(log, "exit") = 1
                /\ \A i, j \in 1..Len(log) :
                      (i < j /\ log[i].what = "set" /\ log[j].what = "set") =>
                          (~log[i].out.raised /\ ~Complained(log[i].out))
    /\ \A i \in 1..Len(cfg_sent) :
          cfg_sent[i].what = "commit" =>
              /\ i = Len(cfg_sent)
              /\ cfg_routine = "perform_initial_setup"
              /\ \A k \in 1..Len(Operations) : Succeeded(Operations[k])
    /\ cfg_pc = "returned" =>
          IF cfg_routine = "perform_initial_setup"
          THEN CountOf(cfg_sent, "commit") = 1
          ELSE Succeeded(cfg_routine)

\* set_dns_servers: the device complained about the primary server, the
\* secondary was not sent, and "exit" was
C40_Witness ==
    /\ cfg_routine = "set_dns_servers"
    /\ secondary_dns
    /\ cfg_pc = "raised"
    /\ Len(cfg_sent) = 3
    /\ Complained(cfg_sent[2].out)
    /\ cfg_sent[3] = Sent("set_dns_servers", "exit", Returns({}))

\* "configure" raised in the second operation of perform_initial_setup
C40_WitnessEnterRaised ==
    /\ cfg_routine = "perform_initial_setup"
    /\ cfg_pc = "raised"
    /\ Succeeded("set_management_ip")
    /\ SentBy("set_dns_servers") = <<Sent("set_dns_servers", "configure", Raises)>>

\* perform_initial_setup committed
C40_WitnessCommitted ==
    /\ cfg_routine = "perform_initial_setup"
    /\ cfg_pc = "returned"
    /\ cfg_sent[Len(cfg_sent)].what = "commit"
    /\ Complained(SentBy("change_admin_password")[2].out)

\* ----------------------------------------------------- specifications
\* no planner call is in progress
PlanIdle ==
    /\ upgrade_paths = UPGRADE_PATHS
    /\ current_version = EmptyString
    /\ target_version = EmptyString
    /\ working_version = NoVersion
    /\ path = <<>>
    /\ plan_pc = "idle"

\* no stage operation is running
StageIdle ==
    /\ op = "fetch_licenses"
    /\ output = NoStatus
    /\ retval = None
    /\ stage_error = ""
    /\ stage_pc = "idle"
    /\ ds_version = EmptyString
    /\ ds_timeout = 0
    /\ issued = <<>>
    /\ ds_pc = "idle"
    /\ sent = <<>>

\* wait_for_ssh is not running and no session is connected
SshIdle ==
    /\ ssh_timeout = 0
    /\ ssh_poll_interval = 0
    /\ ssh_start_time = 0
    /\ attempt = 0
    /\ result = "none"
    /\ session = "none"
    /\ ssh_pc = "idle"
    /\ connected = 0

\* no method of a FirewallConfigurator is running
CfgIdle ==
    /\ cfg_routine = "none"
    /\ secondary_dns = FALSE
    /\ cfg_op = "none"
    /\ cfg_k = 1
    /\ cfg_failed = FALSE
    /\ cfg_sent = <<>>
    /\ cfg_pc = "idle"

\* no run has been started
WorkerIdle ==
    /\ running = FALSE
    /\ started = 0
    /\ success = FALSE
    /\ results = <<>>
    /\ completed = <<>>
    /\ infos = <<>>
    /\ worker_errors = <<>>
    /\ worker_pc = "idle"

\* fetch_and_verify_licenses is not running
LicIdle ==
    /\ entry = "none"
    /\ disconnects = 0
    /\ max_retries = 0
    /\ retry_delay = 0
    /\ lic_attempt = 0
    /\ last_error = NoError
    /\ tried = <<>>
    /\ slept = <<>>
    /\ queries = <<>>
    /\ lic_error = NothingRaised
    /\ lic_pc = "idle"

\* neither routine is running
RunIdle ==
    /\ routine = "none"
    /\ run_pc = "idle"
    /\ current_phase = 0
    /\ step = 1
    /\ hop = 1
    /\ new_version = EmptyString
    /\ live = FALSE
    /\ cancelled = FALSE
    /\ cancelled_at = -1
    /\ phase_ok = FALSE
    /\ outcome = "none"
    /\ failure = ""
    /\ calls = <<>>
    /\ shown = <<>>
    /\ error = NoError
    /\ warnings = 0
    /\ overall = {}

\* one poller is called
PollInit ==
    /\ job \in Jobs
    /\ client \in (IF job \in SoftwareJobs THEN BOOLEAN ELSE {TRUE})
    /\ timeout \in Timeouts
    /\ now = 0
    /\ start_time = 0
    /\ status = NoStatus
    /\ n_sleeps = 0
    /\ n_polls = 0
    /\ progress = ""
    /\ poll_pc = "call"
    /\ PlanIdle
    /\ StageIdle
    /\ SshIdle
    /\ RunIdle
    /\ LicIdle
    /\ WorkerIdle
    /\ CfgIdle

\* no poller is running
PollIdle ==
    /\ job = "content_download"
    /\ client = TRUE
    /\ timeout = 0
    /\ now = 0
    /\ start_time = 0
    /\ status = NoStatus
    /\ n_sleeps = 0
    /\ n_polls = 0
    /\ progress = ""
    /\ poll_pc = "idle"

SpecPoll == PollInit /\ [][PollNext]_vars

\* one thread runs the poller: a sleep returns, a command returns or raises
SpecPollFair == SpecPoll /\ WF_vars(PollNext)

\* the planner called with the shipped map on any pair of version strings
PlanInit ==
    /\ upgrade_paths = UPGRADE_PATHS
    /\ current_version \in VersionStrings
    /\ target_version \in VersionStrings
    /\ working_version = NoVersion
    /\ path = <<>>
    /\ plan_pc = "call"
    /\ PollIdle
    /\ StageIdle
    /\ SshIdle
    /\ RunIdle
    /\ LicIdle
    /\ WorkerIdle
    /\ CfgIdle

SpecPlan == PlanInit /\ [][PlanNext]_vars

PlanMapInit ==
    /\ upgrade_paths \in EditedMaps
    /\ current_version \in BaseStrings
    /\ target_version \in { VerStr(b.major, b.minor, 1, 0) : b \in BaseStrings }
    /\ working_version = NoVersion
    /\ path = <<>>
    /\ plan_pc = "call"
    /\ PollIdle
    /\ StageIdle
    /\ SshIdle
    /\ RunIdle
    /\ LicIdle
    /\ WorkerIdle
    /\ CfgIdle

SpecPlanMap == PlanMapInit /\ [][PlanNext]_vars

\* one stage operation, or download_software, is called
StageInit ==
    /\ \/ /\ ds_pc = "idle"
          /\ op \in StageOps
          /\ stage_pc = "call"
          /\ timeout \in StageTimeouts
          /\ ds_version = EmptyString
          /\ ds_timeout = 0
       \/ /\ ds_pc = "call"
          /\ op = "_download_version"
          /\ stage_pc = "idle"
          /\ timeout = 0
          /\ ds_version \in DownloadVersions
          /\ ds_timeout \in StageTimeouts
    /\ client \in (IF op \in UpgraderOps THEN BOOLEAN ELSE {TRUE})
    /\ output = NoStatus
    /\ retval = None
    /\ stage_error = ""
    /\ issued = <<>>
    /\ sent = <<>>
    /\ job = "content_download"
    /\ now = 0
    /\ start_time = 0
    /\ status = NoStatus
    /\ n_sleeps = 0
    /\ n_polls = 0
    /\ progress = ""
    /\ poll_pc = "idle"
    /\ PlanIdle
    /\ SshIdle
    /\ RunIdle
    /\ LicIdle
    /\ WorkerIdle
    /\ CfgIdle

SpecStage == StageInit /\ [][StageNext]_vars

\* one operation of a PANOSUpgrader is called, with or without a client
UpgraderInit ==
    /\ \/ /\ op \in UpgraderOps \cup SimpleOps
          /\ stage_pc = "call"
          /\ ds_pc = "idle"
          /\ poll_pc = "idle"
          /\ job = "content_download"
          /\ timeout \in StageTimeouts
          /\ ds_version = EmptyString
          /\ ds_timeout = 0
       \/ /\ op = "_download_version"
          /\ stage_pc = "idle"
          /\ ds_pc = "call"
          /\ poll_pc = "idle"
          /\ job = "content_download"
          /\ timeout = 0
          /\ ds_version \in DownloadVersions
          /\ ds_timeout \in StageTimeouts
       \/ /\ op = "_download_version"
          /\ stage_pc = "idle"
          /\ ds_pc = "idle"
          /\ poll_pc = "call"
          /\ job \in SoftwareJobs
          /\ timeout \in StageTimeouts
          /\ ds_version = EmptyString
          /\ ds_timeout = 0
    /\ client \in BOOLEAN
    /\ connected = (IF client THEN 1 ELSE 0)
    /\ output = NoStatus
    /\ retval = None
    /\ stage_error = ""
    /\ issued = <<>>
    /\ sent = <<>>
    /\ now = 0
    /\ start_time = 0
    /\ status = NoStatus
    /\ n_sleeps = 0
    /\ n_polls = 0
    /\ progress = ""
    /\ ssh_timeout = 0
    /\ ssh_poll_interval = 0
    /\ ssh_start_time = 0
    /\ attempt = 0
    /\ result = "none"
    /\ session = "none"
    /\ ssh_pc = "idle"
    /\ PlanIdle
    /\ RunIdle
    /\ LicIdle
    /\ WorkerIdle
    /\ CfgIdle

SpecUpgrader == UpgraderInit /\ [][UpgraderNext]_vars

\* fetch_and_verify_licenses is called
LicInit ==
    /\ entry = "fetch_and_verify_licenses"
    /\ disconnects = 0
    /\ max_retries \in 0..MaxRetries
    /\ retry_delay \in RetryDelays
    /\ lic_attempt = 0
    /\ last_error = NoError
    /\ tried = <<>>
    /\ slept = <<>>
    /\ queries = <<>>
    /\ lic_error = NothingRaised
    /\ lic_pc = "call"
    /\ job = "content_download"
    /\ client = FALSE
    /\ timeout = 0
    /\ now = 0
    /\ start_time = 0
    /\ status = NoStatus
    /\ n_sleeps = 0
    /\ n_polls = 0
    /\ progress = ""
    /\ poll_pc = "idle"
    /\ PlanIdle
    /\ StageIdle
    /\ SshIdle
    /\ RunIdle
    /\ WorkerIdle
    /\ CfgIdle

SpecLicense == LicInit /\ [][LicNext]_vars

\* one of the three functions is called
EntryInit ==
    /\ entry \in EntryPoints
    /\ disconnects = 0
    /\ max_retries \in (IF entry = "fetch_and_verify_licenses"
                         THEN 0..MaxRetries ELSE {0})
    /\ retry_delay \in (IF entry = "fetch_and_verify_licenses"
                         THEN RetryDelays ELSE {0})
    /\ lic_attempt = 0
    /\ last_error = NoError
    /\ tried = <<>>
    /\ slept = <<>>
    /\ queries = <<>>
    /\ lic_error = NothingRaised
    /\ lic_pc = "call"
    /\ job = "content_download"
    /\ client = FALSE
    /\ timeout = 0
    /\ now = 0
    /\ start_time = 0
    /\ status = NoStatus
    /\ n_sleeps = 0
    /\ n_polls = 0
    /\ progress = ""
    /\ poll_pc = "idle"
    /\ PlanIdle
    /\ StageIdle
    /\ SshIdle
    /\ RunIdle
    /\ WorkerIdle
    /\ CfgIdle

SpecEntry == EntryInit /\ [][EntryNext]_vars

\* the window is open and no run has been started
WorkerInit ==
    /\ WorkerIdle
    /\ CfgIdle
    /\ PlanIdle
    /\ PollIdle
    /\ StageIdle
    /\ SshIdle
    /\ RunIdle
    /\ LicIdle

SpecWorker == WorkerInit /\ [][WorkerNext]_vars

\* a method of a FirewallConfigurator is called
CfgInit ==
    /\ cfg_routine \in Routines
    /\ secondary_dns \in BOOLEAN
    /\ cfg_op = "none"
    /\ cfg_k = 1
    /\ cfg_failed = FALSE
    /\ cfg_sent = <<>>
    /\ cfg_pc = "call"
    /\ PlanIdle
    /\ PollIdle
    /\ StageIdle
    /\ SshIdle
    /\ RunIdle
    /\ LicIdle
    /\ WorkerIdle

SpecConfig == CfgInit /\ [][CfgNext]_vars

\* wait_for_ssh is called
SshInit ==
    /\ ssh_timeout \in Timeouts
    /\ ssh_poll_interval \in SshPollIntervals
    /\ ssh_start_time = 0
    /\ attempt = 0
    /\ result = "none"
    /\ session = "none"
    /\ ssh_pc = "call"
    /\ connected = 0
    /\ PlanIdle
    /\ PollIdle
    /\ StageIdle
    /\ RunIdle
    /\ LicIdle
    /\ WorkerIdle
    /\ CfgIdle

SpecSsh == SshInit /\ [][SshNext]_vars

\* one thread runs wait_for_ssh: each probe, connect, command and sleep ends
SpecSshFair == SpecSsh /\ WF_vars(SshNext)

\* upgrade_to_version or run is called on a new upgrader or orchestrator
SetupInit ==
    /\ routine \in {"upgrade_to_version", "run"}
    /\ run_pc = (IF routine = "run" THEN "run" ELSE "u_connect")
    /\ current_phase = 0
    /\ step = 1
    /\ hop = 1
    /\ new_version = EmptyString
    /\ live = FALSE
    /\ cancelled = FALSE
    /\ cancelled_at = -1
    /\ phase_ok = FALSE
    /\ outcome = "none"
    /\ failure = ""
    /\ calls = <<>>
    /\ shown = <<>>
    /\ error = NoError
    /\ warnings = 0
    /\ overall = {}
    /\ upgrade_paths = UPGRADE_PATHS
    /\ current_version = EmptyString
    /\ target_version \in TargetVersions
    /\ working_version = NoVersion
    /\ path = <<>>
    /\ plan_pc = "idle"
    /\ job = "content_download"
    /\ client = FALSE
    /\ timeout = 0
    /\ now = 0
    /\ start_time = 0
    /\ status = NoStatus
    /\ n_sleeps = 0
    /\ n_polls = 0
    /\ progress = ""
    /\ poll_pc = "idle"
    /\ StageIdle
    /\ SshIdle
    /\ LicIdle
    /\ WorkerIdle
    /\ CfgIdle

SpecSetup == SetupInit /\ [][SetupNext]_vars

\* one thread runs the routine: every call on the device comes back
SpecSetupFair == SpecSetup /\ WF_vars(SetupNext)

====
